---- MODULE Spec2Model ----
(***************************************************************************)
(* State-machine model of the 2D geometry / spatial-index kernel:         *)
(*   - SpatialHash  (packages/core/src/spatial/spatialHash.ts)            *)
(*   - Pool         (packages/core/src/utils/pool.ts)                     *)
(*   - LazyCacheable (src/core/LazyCacheable.ts)                          *)
(*   - Polygon      (src/geometry/Polygon.ts)                             *)
(*   - Rect         (packages/math/src/geometry/rect.ts)                  *)
(* Each component has its own next-state relation and specification; the  *)
(* variables of the other components stay at their initial values.        *)
(***************************************************************************)
EXTENDS Integers, Sequences, FiniteSets, TLC

VARIABLES
    grid,       \* SpatialHash.grid: cell key -> bucket (sequence of items)
    reverse,    \* SpatialHash.reverse: item -> cell key
    hpos,       \* caller's view: item -> the coordinates it was last put at, or NoPos
    hlast,      \* the last SpatialHash operation, the item it was called with and,
                \*   for clear, the items that were tracked when it was called
    pool,       \* Pool: [items: the free list, created: the objects the factory made,
                \*        hasReset: whether options.reset was given]
    plast,      \* the last Pool operation, its argument, result and the calls it made
    pprev,      \* the Pool operation before the last one
    lc,         \* LazyCacheable objects: object -> [dirty: the _isDirty flag, refreshes,
                \*   hooks: how often its refresh and onRefreshed have run]
    lclast,     \* the last LazyCacheable call, the calls it made and what it returned
    gheap,      \* the Point objects of the polygons and of their caller: id -> <<x, y>>
    gpoly,      \* the polygons: "src" and, once made, its "clone"; NoPoly before
    gheld,      \* the ids of the Point objects the caller still holds a reference to
    gsteps,     \* the number of Polygon operations done
    glast,      \* the last Polygon operation, its target, arguments and result
    rect,       \* a Rect: [position, size, dirty: the _isDirty flag, vertices: the
                \*   cached list, aabb: the _aabb field]
    rlast,      \* the last contains or intersects call on the Rect, its argument
                \*   and what it returned
    circ,       \* a Circle, if its construction did not throw: [exists, position,
                \*   radius, squaredRadius, aabb, dirty, refreshes: the runs of
                \*   refresh() since the construction began or the last markDirty()]
    clast,      \* the last Circle operation, its arguments, what containsPoint
                \*   returned and whether the operation threw
    vec,        \* a Vector, of packages/math or of unnamed/part_001 as the
                \*   specification says: [x, y: numbers, possibly NaN; dirty;
                \*   squaredLength]
    vlast       \* the last Vector operation, its argument and what it returned

hashVars == <<grid, reverse, hpos, hlast>>
poolVars == <<pool, plast, pprev>>
lazyVars == <<lc, lclast>>
polyVars == <<gheap, gpoly, gheld, gsteps, glast>>

rectVars == <<rect, rlast>>
circVars == <<circ, clast>>
vecVars == <<vec, vlast>>

vars == <<hashVars, poolVars, lazyVars, polyVars, rectVars, circVars, vecVars>>

\* What the operations of one component leave alone: the other components.
notHash == <<poolVars, lazyVars, polyVars, rectVars, circVars, vecVars>>
notPool == <<hashVars, lazyVars, polyVars, rectVars, circVars, vecVars>>
notLazy == <<hashVars, poolVars, polyVars, rectVars, circVars, vecVars>>
notPoly == <<hashVars, poolVars, lazyVars, rectVars, circVars, vecVars>>
notRect == <<hashVars, poolVars, lazyVars, polyVars, circVars, vecVars>>
notCirc == <<hashVars, poolVars, lazyVars, polyVars, rectVars, vecVars>>
notVec == <<hashVars, poolVars, lazyVars, polyVars, rectVars, circVars>>

(***************************************************************************)
(* Generic helpers                                                         *)
(***************************************************************************)
Range(s) == {s[i] : i \in 1..Len(s)}

\* Array.prototype.indexOf, 1-based; 0 stands for JavaScript's -1.
IndexOf(s, e) ==
    IF \E i \in 1..Len(s) : s[i] = e
    THEN CHOOSE i \in 1..Len(s) : s[i] = e /\ \A j \in 1..(i - 1) : s[j] # e
    ELSE 0

\* Array.prototype.splice(index, 1) with a 1-based index.
RemoveAt(s, i) == [j \in 1..(Len(s) - 1) |-> IF j < i THEN s[j] ELSE s[j + 1]]

\* The number of occurrences of e in s.
Count(s, e) == Cardinality({i \in 1..Len(s) : s[i] = e})

\* x << 16 on 32-bit integers: the low 16 bits of x, read as a signed 16-bit
\* number, moved to the high half of the word.
Shl16(x) ==
    LET lo == x % 65536
    IN  (IF lo >= 32768 THEN lo - 65536 ELSE lo) * 65536

\* y & 0xffff on 32-bit integers: the low 16 bits of y, never negative.
And16(y) == y % 65536

(***************************************************************************)
(* SpatialHash                                                             *)
(***************************************************************************)
\* Bounds of the SpatialHash model.
MaxCoord == 1
MaxRadius == 1
MaxBucket == 2

\* The cell size given to the constructor.
cellSize == 2

Items == {"a", "b"}
Coords == (0 - MaxCoord)..MaxCoord
Positions == Coords \X Coords
Radii == 0..MaxRadius
NoPos == <<>>
NoItem == "-"

\* Math.floor(v / cellSize), cellSize > 0.
FloorDiv(v) == v \div cellSize

\* (x << 16) ^ (y & 0xffff) on 32-bit integers: the shifted x has its low 16 bits
\* clear and the masked y its high 16 bits, so the exclusive or adds them.
getCellKey(x, y) == Shl16(x) + And16(y)

\* Mutant of hash: the cell coordinate truncated toward zero, (v / cellSize) | 0,
\* instead of floored.
TruncDiv(v) == IF v >= 0 THEN v \div cellSize ELSE 0 - ((0 - v) \div cellSize)
hashTruncating(x, y) == getCellKey(TruncDiv(x), TruncDiv(y))

\* hash(x, y)
hash(x, y) == getCellKey(FloorDiv(x), FloorDiv(y))

\* `!key` on a number that is not undefined: true for 0.
IsFalsyKey(key) == key = 0

HashState == [grid |-> grid, reverse |-> reverse]

\* insert(item, x, y)
HashInsert(h, item, x, y) ==
    LET key == hash(x, y)
        cell == IF key \in DOMAIN h.grid THEN h.grid[key] ELSE <<>>
        pushed == Append(cell, item)
    IN  [grid |-> [k \in DOMAIN h.grid \cup {key} |->
                      IF k = key THEN pushed ELSE h.grid[k]],
         reverse |-> [i \in DOMAIN h.reverse \cup {item} |->
                      IF i = item THEN key ELSE h.reverse[i]]]

\* remove(item)
HashRemove(h, item) ==
    IF item \notin DOMAIN h.reverse THEN h
    ELSE LET key == h.reverse[item] IN
         IF IsFalsyKey(key) THEN h
         ELSE IF key \notin DOMAIN h.grid THEN h
         ELSE LET cell == h.grid[key]
                  index == IndexOf(cell, item)
                  spliced == RemoveAt(cell, index)
                  g2 == IF index = 0 THEN h.grid
                        ELSE IF Len(spliced) = 0
                             THEN [k \in DOMAIN h.grid \ {key} |-> h.grid[k]]
                             ELSE [h.grid EXCEPT ![key] = spliced]
              IN  [grid |-> g2,
                   reverse |-> [i \in DOMAIN h.reverse \ {item} |-> h.reverse[i]]]

\* update(item, x, y)
HashUpdate(h, item, x, y) ==
    LET newKey == hash(x, y)
        same == item \in DOMAIN h.reverse /\ h.reverse[item] = newKey
    IN  IF same THEN h ELSE HashInsert(HashRemove(h, item), item, x, y)

\* The bounds of query's cell scan.
QueryMin(c, radius) == FloorDiv(c - radius)
QueryMax(c, radius) == FloorDiv(c + radius)

RECURSIVE ScanRow(_, _, _, _)
ScanRow(g, cy, cx, maxX) ==
    IF cx > maxX THEN <<>>
    ELSE LET key == getCellKey(cx, cy)
         IN  (IF key \in DOMAIN g THEN g[key] ELSE <<>>) \o ScanRow(g, cy, cx + 1, maxX)

RECURSIVE ScanRows(_, _, _, _, _)
ScanRows(g, cy, maxY, minX, maxX) ==
    IF cy > maxY THEN <<>>
    ELSE ScanRow(g, cy, minX, maxX) \o ScanRows(g, cy + 1, maxY, minX, maxX)

\* query(x, y, radius) on grid g. query changes nothing, so it is an operator that
\* the properties evaluate on the grid of every reachable state.
HashQuery(g, x, y, radius) ==
    ScanRows(g, QueryMin(y, radius), QueryMax(y, radius),
             QueryMin(x, radius), QueryMax(x, radius))

\* No bucket is longer than the model's bound.
BucketsBounded(g) == \A k \in DOMAIN g : Len(g[k]) <= MaxBucket

HashInit ==
    /\ grid = <<>>
    /\ reverse = <<>>
    /\ hpos = [i \in Items |-> NoPos]
    /\ hlast = [op |-> "new", item |-> NoItem, tracked |-> {}]

\* insert of an item the caller does not currently track (caller contract).
Insert ==
    \E item \in Items, p \in Positions :
        /\ hpos[item] = NoPos
        /\ LET h == HashInsert(HashState, item, p[1], p[2]) IN
           /\ BucketsBounded(h.grid)
           /\ grid' = h.grid
           /\ reverse' = h.reverse
        /\ hpos' = [hpos EXCEPT ![item] = p]
        /\ hlast' = [op |-> "insert", item |-> item, tracked |-> {}]
        /\ UNCHANGED notHash

Remove ==
    \E item \in Items :
        /\ LET h == HashRemove(HashState, item) IN
           /\ grid' = h.grid
           /\ reverse' = h.reverse
        /\ hpos' = [hpos EXCEPT ![item] = NoPos]
        /\ hlast' = [op |-> "remove", item |-> item, tracked |-> {}]
        /\ UNCHANGED notHash

Update ==
    \E item \in Items, p \in Positions :
        /\ LET h == HashUpdate(HashState, item, p[1], p[2]) IN
           /\ BucketsBounded(h.grid)
           /\ grid' = h.grid
           /\ reverse' = h.reverse
        /\ hpos' = [hpos EXCEPT ![item] = p]
        /\ hlast' = [op |-> "update", item |-> item, tracked |-> {}]
        /\ UNCHANGED notHash

\* Mutant of Clear: the reverse index is replaced and the grid is kept.
ClearReverseOnly ==
    /\ grid' = grid
    /\ reverse' = <<>>
    /\ hpos' = [i \in Items |-> NoPos]
    /\ hlast' = [op |-> "clear", item |-> NoItem, tracked |-> DOMAIN reverse]
    /\ UNCHANGED notHash

Clear ==
    /\ grid' = <<>>
    /\ reverse' = <<>>
    /\ hpos' = [i \in Items |-> NoPos]
    /\ hlast' = [op |-> "clear", item |-> NoItem, tracked |-> DOMAIN reverse]
    /\ UNCHANGED notHash

(***************************************************************************)
(* SpatialHash properties                                                  *)
(***************************************************************************)
SqDist(p, q) == (p[1] - q[1]) * (p[1] - q[1]) + (p[2] - q[2]) * (p[2] - q[2])

\* The items a query returns.
Returned(g, p, radius) == Range(HashQuery(g, p[1], p[2], radius))

\* The number of times item occurs in all the buckets of g.
RECURSIVE Occurrences(_, _, _)
Occurrences(g, keys, item) ==
    IF keys = {} THEN 0
    ELSE LET k == CHOOSE k \in keys : TRUE
         IN  Count(g[k], item) + Occurrences(g, keys \ {k}, item)

\* C1: after update(item, newX, newY) of a tracked item, whatever cell it was in,
\* a query at the new location returns the item and, when the old and the new cell
\* differ, a query of radius 0 at the old location does not.
C1_UpdateMovesItem ==
    [][\A i \in Items :
        (hlast'.op = "update" /\ hlast'.item = i /\ hpos[i] # NoPos)
        => /\ i \in Returned(grid', hpos'[i], 0)
           /\ (hash(hpos[i][1], hpos[i][2]) # hash(hpos'[i][1], hpos'[i][2])
               => i \notin Returned(grid', hpos[i], 0))]_vars

\* C2: query has no false negatives: every item the caller inserted and has not
\* removed, whose squared distance to (x, y) is at most radius * radius, is in the
\* array query(x, y, radius) returns.
C2_NoFalseNegatives ==
    \A i \in Items, p \in Positions, radius \in Radii :
        (hpos[i] # NoPos /\ SqDist(hpos[i], p) <= radius * radius)
        => i \in Returned(grid, p, radius)

\* C2 witness: an item in a cell with a negative coordinate is within the radius of
\* a query centred in another cell, and the query returns it.
C2_Witness ==
    \E i \in Items, p \in Positions, radius \in Radii :
        /\ hpos[i] # NoPos
        /\ FloorDiv(hpos[i][1]) < 0
        /\ hash(hpos[i][1], hpos[i][2]) # hash(p[1], p[2])
        /\ radius > 0
        /\ SqDist(hpos[i], p) <= radius * radius
        /\ i \in Returned(grid, p, radius)

\* C3: after remove(item) of a tracked item, whatever cell it was in, the item is
\* in no bucket, the reverse index has no entry for it, the grid holds no empty
\* bucket and every other item is in its buckets as before.
C3_RemoveDropsItem ==
    [][\A i \in Items :
        (hlast'.op = "remove" /\ hlast'.item = i /\ hpos[i] # NoPos)
        => /\ Occurrences(grid', DOMAIN grid', i) = 0
           /\ i \notin DOMAIN reverse'
           /\ \A k \in DOMAIN grid' : Len(grid'[k]) > 0
           /\ \A j \in Items \ {i}, k \in DOMAIN grid :
                Count(grid[k], j) > 0
                => (k \in DOMAIN grid' /\ Count(grid'[k], j) = Count(grid[k], j))]_vars

\* C4: membership invariant: every tracked item is in exactly one bucket, exactly
\* once, the reverse index maps it to the key of that bucket, and no bucket of the
\* grid is empty.
C4_Membership ==
    /\ \A i \in DOMAIN reverse :
        /\ Occurrences(grid, DOMAIN grid, i) = 1
        /\ reverse[i] \in DOMAIN grid
        /\ Count(grid[reverse[i]], i) = 1
    /\ \A i \in Items : hpos[i] # NoPos => i \in DOMAIN reverse
    /\ \A k \in DOMAIN grid : Len(grid[k]) > 0

\* C27: after clear(), every query returns an empty array, no item is tracked
\* (remove of an item that was tracked changes nothing), and an item that was
\* tracked can be inserted again and is then in exactly one bucket, once.
C27_ClearDropsAll ==
    [][/\ hlast'.op = "clear" =>
            LET cleared == [grid |-> grid', reverse |-> reverse']
            IN  /\ \A p \in Positions, radius \in Radii :
                    HashQuery(grid', p[1], p[2], radius) = <<>>
                /\ DOMAIN reverse' = {}
                /\ \A item \in DOMAIN reverse :
                    /\ HashRemove(cleared, item) = cleared
                    /\ \A p \in Positions :
                        LET h == HashInsert(cleared, item, p[1], p[2])
                        IN  /\ Occurrences(h.grid, DOMAIN h.grid, item) = 1
                            /\ item \in Returned(h.grid, p, 0)
       /\ (hlast.op = "clear" /\ hlast'.op = "remove") => (grid' = grid /\ reverse' = reverse)
       /\ (hlast.op = "clear" /\ hlast'.op = "insert")
          => /\ Occurrences(grid', DOMAIN grid', hlast'.item) = 1
             /\ hlast'.item \in Returned(grid', hpos'[hlast'.item], 0)
      ]_vars

\* C27 witness: clear() was called on a hash that tracked both items, and
\* nothing is left of them.
C27_Witness ==
    /\ hlast.op = "clear"
    /\ hlast.tracked = Items
    /\ grid = <<>>
    /\ DOMAIN reverse = {}

(***************************************************************************)
(* Pool                                                                    *)
(***************************************************************************)
\* Bounds of the Pool model.
MaxPool == 3
MaxCreated == 3

\* Pooled objects are numbered in the order the factory makes them; Foreign is an
\* object that the pool's factory did not make.
Foreign == 0

NoCall == [op |-> "new", item |-> Foreign, arg |-> 0, sizeBefore |-> 0,
           made |-> 0, resets |-> <<>>]

\* Mutant of PoolAcquire: the last item is read but not popped.
PoolAcquirePeek(p) ==
    IF Len(p.items) > 0
    THEN [pool |-> p, item |-> p.items[Len(p.items)], made |-> 0]
    ELSE [pool |-> [p EXCEPT !.created = @ + 1], item |-> p.created + 1, made |-> 1]

\* acquire(): this.items.pop() ?? this.factory()
PoolAcquire(p) ==
    IF Len(p.items) > 0
    THEN [pool |-> [p EXCEPT !.items = SubSeq(@, 1, Len(@) - 1)],
          item |-> p.items[Len(p.items)], made |-> 0]
    ELSE [pool |-> [p EXCEPT !.created = @ + 1], item |-> p.created + 1, made |-> 1]

\* Mutant of PoolRelease: an item already in the free list is not pushed again.
PoolReleaseOnce(p, item) ==
    [pool |-> IF item \in Range(p.items) THEN p ELSE [p EXCEPT !.items = Append(@, item)],
     resets |-> IF p.hasReset THEN <<[item |-> item, size |-> Len(p.items)]>> ELSE <<>>]

\* release(item): the calls of reset it makes, each with the item and the size of
\* the free list at the call, and the pool afterwards.
PoolRelease(p, item) ==
    [pool |-> [p EXCEPT !.items = Append(@, item)],
     resets |-> IF p.hasReset THEN <<[item |-> item, size |-> Len(p.items)]>> ELSE <<>>]

\* preallocate(count): one factory call and push per missing item.
RECURSIVE PoolFill(_, _)
PoolFill(p, missing) ==
    IF missing <= 0 THEN p
    ELSE PoolFill([p EXCEPT !.items = Append(@, p.created + 1), !.created = @ + 1],
                  missing - 1)

\* Mutant of PoolPreallocate: count items are added whatever the size.
PoolPreallocateAdditive(p, count) == PoolFill(p, count)

PoolPreallocate(p, count) == PoolFill(p, count - Len(p.items))

\* clear(): this.items.length = 0
PoolClear(p) == [p EXCEPT !.items = <<>>]

\* new Pool({factory, intialSize, reset})
PoolNew(initialSize, hasReset) ==
    LET empty == [items |-> <<>>, created |-> 0, hasReset |-> hasReset]
    IN  IF initialSize > 0 THEN PoolPreallocate(empty, initialSize) ELSE empty

PoolInit ==
    /\ \E n \in 0..MaxPool, r \in BOOLEAN : pool = PoolNew(n, r)
    /\ plast = NoCall
    /\ pprev = NoCall

\* The pool while another component is exercised.
PoolIdle ==
    /\ pool = PoolNew(0, FALSE)
    /\ plast = NoCall
    /\ pprev = NoCall

PoolBounded(p) == Len(p.items) <= MaxPool /\ p.created <= MaxCreated

Acquire ==
    LET r == PoolAcquire(pool) IN
    /\ PoolBounded(r.pool)
    /\ pool' = r.pool
    /\ plast' = [op |-> "acquire", item |-> r.item, arg |-> 0,
                 sizeBefore |-> Len(pool.items), made |-> r.made, resets |-> <<>>]
    /\ pprev' = plast
    /\ UNCHANGED notPool

\* release of any object: one the pool issued, one still in the free list, or a
\* foreign one.
Release ==
    \E item \in Foreign..pool.created :
        LET r == PoolRelease(pool, item) IN
        /\ PoolBounded(r.pool)
        /\ pool' = r.pool
        /\ plast' = [op |-> "release", item |-> item, arg |-> 0,
                     sizeBefore |-> Len(pool.items), made |-> 0, resets |-> r.resets]
        /\ pprev' = plast
        /\ UNCHANGED notPool
    /\ UNCHANGED notPool

Preallocate ==
    \E count \in (0 - 1)..MaxPool :
        LET p2 == PoolPreallocate(pool, count) IN
        /\ PoolBounded(p2)
        /\ pool' = p2
        /\ plast' = [op |-> "preallocate", item |-> Foreign, arg |-> count,
                     sizeBefore |-> Len(pool.items), made |-> p2.created - pool.created,
                     resets |-> <<>>]
        /\ pprev' = plast
        /\ UNCHANGED notPool
    /\ UNCHANGED notPool

PoolClearAll ==
    /\ pool' = PoolClear(pool)
    /\ plast' = [op |-> "clear", item |-> Foreign, arg |-> 0,
                 sizeBefore |-> Len(pool.items), made |-> 0, resets |-> <<>>]
    /\ pprev' = plast
    /\ UNCHANGED notPool

\* size
PoolSize == Len(pool.items)

(***************************************************************************)
(* Pool properties                                                         *)
(***************************************************************************)
\* An acquire() immediately followed by release() of the acquired item.
AcquireThenRelease ==
    /\ plast.op = "release"
    /\ pprev.op = "acquire"
    /\ plast.item = pprev.item

\* C5 as stated: for any pool state, the empty free list included, acquire()
\* immediately followed by release() of the acquired item restores size to its
\* value before the acquire.
C5_AcquireReleaseRestoresSize ==
    AcquireThenRelease => PoolSize = pprev.sizeBefore

\* C5 amended: acquire() immediately followed by release() of the acquired item
\* restores size when the free list was not empty before the acquire; when it was
\* empty, the object the factory made is added and size is 1.
C5_AcquireReleaseSize ==
    AcquireThenRelease
    => PoolSize = (IF pprev.sizeBefore = 0 THEN 1 ELSE pprev.sizeBefore)

\* C5 witness: the pair has run on a free list of at least two items.
C5_Witness ==
    AcquireThenRelease /\ pprev.sizeBefore >= 2 /\ PoolSize = pprev.sizeBefore

ReleaseResetsThenPushes ==
    plast'.op = "release" =>
        /\ pool.hasReset
           => plast'.resets = <<[item |-> plast'.item, size |-> Len(pool.items)]>>
        /\ ~pool.hasReset => plast'.resets = <<>>
        /\ pool'.items = Append(pool.items, plast'.item)
        /\ Len(pool'.items) = Len(pool.items) + 1

\* C26 as stated: release as above; acquire calls the factory only when the
\* free list is empty and otherwise returns the most recently released item:
\* the item of the release just before, or of the release before a preallocate
\* just before.
C26_AcquireReturnsLastReleased ==
    [][/\ ReleaseResetsThenPushes
       /\ plast'.op = "acquire" =>
            /\ (plast'.made = 1) = (Len(pool.items) = 0)
            /\ (Len(pool.items) > 0 /\ plast.op = "release")
               => plast'.item = plast.item
            /\ (Len(pool.items) > 0 /\ plast.op = "preallocate" /\ pprev.op = "release")
               => plast'.item = pprev.item
      ]_vars

\* C26 amended: release as above; acquire calls the factory only when the free
\* list is empty and otherwise removes and returns the last item of the free
\* list: the item pushed last, by release or by preallocate.
C26_AcquirePopsLastPushed ==
    [][/\ ReleaseResetsThenPushes
       /\ plast'.op = "acquire" =>
            /\ (plast'.made = 1) = (Len(pool.items) = 0)
            /\ Len(pool.items) > 0
               => /\ plast'.item = pool.items[Len(pool.items)]
                  /\ pool'.items = SubSeq(pool.items, 1, Len(pool.items) - 1)
            /\ (Len(pool.items) > 0 /\ plast.op = "release")
               => plast'.item = plast.item
      ]_vars

\* C26 witness: the release of an item that is in the free list already, with
\* a reset function configured, and the acquire that returns it.
C26_Witness ==
    /\ plast.op = "acquire"
    /\ pprev.op = "release"
    /\ pprev.item = plast.item
    /\ pprev.resets # <<>>
    /\ plast.item \in Range(pool.items)

(***************************************************************************)
(* LazyCacheable                                                           *)
(***************************************************************************)
\* Bound of the LazyCacheable model: the refreshes of one object.
MaxRefreshes == 3

LcObjs == {"o1", "o2"}
NoObj == "-"

\* new: protected _isDirty: boolean = true
LcNew == [dirty |-> TRUE, refreshes |-> 0, hooks |-> 0]

\* The subclass's refresh() and onRefreshed(), observed as the tests observe them:
\* each counts its calls, and the call is recorded with the flag it runs under.
LcRefresh(o) == [obj |-> [o EXCEPT !.refreshes = @ + 1],
                 call |-> [fn |-> "refresh", dirty |-> o.dirty]]
LcOnRefreshed(o) == [obj |-> [o EXCEPT !.hooks = @ + 1],
                     call |-> [fn |-> "onRefreshed", dirty |-> o.dirty]]

\* Mutant of LcEnsureRefreshed: the flag is cleared after onRefreshed has run.
LcEnsureRefreshedHookFirst(o) ==
    IF ~o.dirty THEN [obj |-> o, calls |-> <<>>]
    ELSE LET r1 == LcRefresh(o)
             r2 == LcOnRefreshed(r1.obj)
         IN  [obj |-> [r2.obj EXCEPT !.dirty = FALSE], calls |-> <<r1.call, r2.call>>]

\* ensureRefreshed(): the object afterwards and the calls made, in order.
LcEnsureRefreshed(o) ==
    IF ~o.dirty THEN [obj |-> o, calls |-> <<>>]
    ELSE LET r1 == LcRefresh(o)
             cleared == [r1.obj EXCEPT !.dirty = FALSE]
             r2 == LcOnRefreshed(cleared)
         IN  [obj |-> r2.obj, calls |-> <<r1.call, r2.call>>]

\* markDirty(): this._isDirty = true; return this
LcMarkDirty(o) == [o EXCEPT !.dirty = TRUE]

LazyInit ==
    /\ lc = [o \in LcObjs |-> LcNew]
    /\ lclast = [op |-> "new", obj |-> NoObj, dirtyBefore |-> TRUE, calls |-> <<>>,
                 ret |-> NoObj]

EnsureRefreshed ==
    \E o \in LcObjs :
        LET r == LcEnsureRefreshed(lc[o]) IN
        /\ r.obj.refreshes <= MaxRefreshes
        /\ lc' = [lc EXCEPT ![o] = r.obj]
        /\ lclast' = [op |-> "ensureRefreshed", obj |-> o, dirtyBefore |-> lc[o].dirty,
                      calls |-> r.calls, ret |-> NoObj]
        /\ UNCHANGED notLazy

MarkDirty ==
    \E o \in LcObjs :
        /\ lc' = [lc EXCEPT ![o] = LcMarkDirty(lc[o])]
        /\ lclast' = [op |-> "markDirty", obj |-> o, dirtyBefore |-> lc[o].dirty,
                      calls |-> <<>>, ret |-> o]
        /\ UNCHANGED notLazy

(***************************************************************************)
(* LazyCacheable properties                                                *)
(***************************************************************************)
\* C6: the lazy-cache protocol. An object that was never refreshed is dirty;
\* ensureRefreshed on a clean object calls neither refresh nor onRefreshed; on a
\* dirty object it calls refresh once, clears the flag, then calls onRefreshed
\* once, which runs with the flag already false; markDirty sets the flag and
\* returns the object it was called on, and every refresh after the first follows
\* a markDirty: refresh and onRefreshed have run equally often.
C6_LazyProtocol ==
    /\ \A o \in LcObjs :
        /\ lc[o].refreshes = 0 => lc[o].dirty
        /\ lc[o].hooks = lc[o].refreshes
    /\ (lclast.op = "ensureRefreshed" /\ ~lclast.dirtyBefore)
       => (lclast.calls = <<>> /\ ~lc[lclast.obj].dirty)
    /\ (lclast.op = "ensureRefreshed" /\ lclast.dirtyBefore)
       => /\ lclast.calls = <<[fn |-> "refresh", dirty |-> TRUE],
                              [fn |-> "onRefreshed", dirty |-> FALSE]>>
          /\ ~lc[lclast.obj].dirty
    /\ lclast.op = "markDirty"
       => (lc[lclast.obj].dirty /\ lclast.ret = lclast.obj)

\* C6 witness: an object refreshed, marked dirty and refreshed again, while the
\* other object is still in its first dirty period.
C6_Witness ==
    /\ lclast.op = "ensureRefreshed"
    /\ lclast.dirtyBefore
    /\ lc[lclast.obj].refreshes = 2
    /\ \E o \in LcObjs : lc[o].refreshes = 0

(***************************************************************************)
(* Polygon (src/src/geometry/Polygon.ts) over Point (src/src/core)         *)
(*                                                                         *)
(* Point objects live in a heap, gheap: a polygon's _vertices is a list of *)
(* Point ids, so that a Point shared with the caller or with another       *)
(* polygon is the same object in the model as in the program. Coordinates  *)
(* are integers; the centroid and the area, which the code divides, are    *)
(* kept as exact fractions <<numerator, denominator>>. The perimeter, a    *)
(* sum of square roots, is kept as the list of the numbers under the roots.*)
(***************************************************************************)
\* Bounds of the Polygon model.
MaxPolySteps == 3
MaxPolyCoord == 4
MaxPolyVertices == 5

PolyNames == {"src", "clone"}
NoPoly == <<>>

Abs(n) == IF n < 0 THEN 0 - n ELSE n

\* Math.sign
Sign(n) == IF n > 0 THEN 1 ELSE IF n < 0 THEN 0 - 1 ELSE 0

\* The smallest id no object of heap h has: a new Point.
NewId(h) == CHOOSE i \in 1..(Cardinality(DOMAIN h) + 1) :
                /\ i \notin DOMAIN h
                /\ \A j \in 1..(i - 1) : j \in DOMAIN h

\* new Point(x, y) for each value of vals, in order: the heap and the new ids.
RECURSIVE NewPoints(_, _, _)
NewPoints(h, vals, ids) ==
    IF Len(ids) = Len(vals) THEN [heap |-> h, ids |-> ids]
    ELSE LET id == NewId(h)
         IN  NewPoints([i \in DOMAIN h \cup {id} |->
                            IF i = id THEN vals[Len(ids) + 1] ELSE h[i]],
                       vals, Append(ids, id))

\* The coordinates of the Points vs (a list of ids) in heap h.
Vals(h, vs) == [i \in 1..Len(vs) |-> h[vs[i]]]

\* Vector.cross2dFromPoints(a, b, c)
cross2dFromPoints(a, b, c) ==
    (b[1] - a[1]) * (c[2] - b[2]) - (b[2] - a[2]) * (c[1] - b[1])

\* updateEdges(): edges[i] = vertices[(i + 1) % length] - vertices[i]
updateEdges(vals) ==
    [i \in 1..Len(vals) |->
        LET next == vals[(i % Len(vals)) + 1]
        IN  <<next[1] - vals[i][1], next[2] - vals[i][2]>>]

\* Mutant of ConcaveFrom: a corner with zero cross product counts as a
\* disagreement with the sign seen so far.
RECURSIVE ConcaveFromCountingZero(_, _, _)
ConcaveFromCountingZero(vals, i, sign) ==
    IF i > Len(vals) THEN FALSE
    ELSE LET n == Len(vals)
             prevVertex == vals[((i - 1 + n - 1) % n) + 1]
             currVertex == vals[i]
             nextVertex == vals[(i % n) + 1]
             currentSign == Sign(cross2dFromPoints(prevVertex, currVertex, nextVertex))
         IN  IF sign = 0 THEN ConcaveFromCountingZero(vals, i + 1, currentSign)
             ELSE IF currentSign # sign THEN TRUE
             ELSE ConcaveFromCountingZero(vals, i + 1, sign)

\* calculateIsConcave(): the loop from corner i (1-based) with the sign seen so far.
RECURSIVE ConcaveFrom(_, _, _)
ConcaveFrom(vals, i, sign) ==
    IF i > Len(vals) THEN FALSE
    ELSE LET n == Len(vals)
             prevVertex == vals[((i - 1 + n - 1) % n) + 1]
             currVertex == vals[i]
             nextVertex == vals[(i % n) + 1]
             currentSign == Sign(cross2dFromPoints(prevVertex, currVertex, nextVertex))
         IN  IF sign = 0 THEN ConcaveFrom(vals, i + 1, currentSign)
             ELSE IF currentSign # 0 /\ currentSign # sign THEN TRUE
             ELSE ConcaveFrom(vals, i + 1, sign)

calculateIsConcave(vals) ==
    IF Len(vals) <= 3 THEN FALSE ELSE ConcaveFrom(vals, 1, 0)

\* The sums of calculateCentroid() and calculateArea() over the vertices from i on.
RECURSIVE ShoelaceFrom(_, _)
ShoelaceFrom(vals, i) ==
    IF i > Len(vals) THEN [centerX |-> 0, centerY |-> 0, area |-> 0]
    ELSE LET vertex == vals[i]
             nextVertex == vals[(i % Len(vals)) + 1]
             a == vertex[1] * nextVertex[2] - nextVertex[1] * vertex[2]
             rest == ShoelaceFrom(vals, i + 1)
         IN  [centerX |-> (vertex[1] + nextVertex[1]) * a + rest.centerX,
              centerY |-> (vertex[2] + nextVertex[2]) * a + rest.centerY,
              area |-> a + rest.area]

\* A fraction with a positive denominator.
Frac(n, d) == IF d < 0 THEN <<0 - n, 0 - d>> ELSE <<n, d>>

\* calculateCentroid(): <<x, y>>, each a fraction; area = sum / 2, factor = 6 * area.
calculateCentroid(vals) ==
    LET s == ShoelaceFrom(vals, 1)
    IN  IF s.area = 0 THEN <<Frac(0, 1), Frac(0, 1)>>
        ELSE <<Frac(s.centerX, 3 * s.area), Frac(s.centerY, 3 * s.area)>>

\* Mutant of calculateArea: the sum is not multiplied by 0.5.
calculateAreaUnhalved(vals) == Frac(ShoelaceFrom(vals, 1).area, 1)

\* calculateArea(): the signed area, a fraction.
calculateArea(vals) == Frac(ShoelaceFrom(vals, 1).area, 2)

Min(S) == CHOOSE m \in S : \A n \in S : m <= n
Max(S) == CHOOSE m \in S : \A n \in S : m >= n

\* calculateAABB(): new Rect(minX, minY, maxX - minX, maxY - minY)
calculateAABB(vals) ==
    LET xs == {vals[i][1] : i \in 1..Len(vals)}
        ys == {vals[i][2] : i \in 1..Len(vals)}
    IN  [x |-> Min(xs), y |-> Min(ys), width |-> Max(xs) - Min(xs),
         height |-> Max(ys) - Min(ys)]

\* calculatePerimeter(): the sum over the edges of a.distance(b) =
\* Math.sqrt(x * x + y * y); the list of the x * x + y * y.
calculatePerimeter(vals) ==
    [i \in 1..Len(vals) |->
        LET b == vals[(i % Len(vals)) + 1]
            x == vals[i][1] - b[1]
            y == vals[i][2] - b[2]
        IN  x * x + y * y]

\* refresh(): the derived fields, from the vertices' current coordinates.
PolyRefresh(h, poly) ==
    LET vals == Vals(h, poly.vertices)
    IN  [poly EXCEPT !.edges = updateEdges(vals),
                     !.isConcave = calculateIsConcave(vals),
                     !.centroid = calculateCentroid(vals),
                     !.aabb = calculateAABB(vals),
                     !.area = calculateArea(vals),
                     !.perimeter = calculatePerimeter(vals)]

\* ensureRefreshed() of LazyCacheable, on a polygon.
PolyEnsureRefreshed(h, poly) ==
    IF ~poly.dirty THEN poly ELSE [PolyRefresh(h, poly) EXCEPT !.dirty = FALSE]

\* new Polygon(vertices), vertices.length >= 3, from the coordinates of the
\* Points given: _position is copied from the first, every vertex is cloned, and
\* refresh() is called directly, which leaves the LazyCacheable flag as it was
\* born, true.
PolyNew(h, vals) ==
    LET made == NewPoints(h, vals, <<>>)
        blank == [vertices |-> made.ids, position |-> vals[1], dirty |-> TRUE,
                  edges |-> <<>>, isConcave |-> FALSE,
                  centroid |-> <<Frac(0, 1), Frac(0, 1)>>,
                  aabb |-> [x |-> 0, y |-> 0, width |-> 0, height |-> 0],
                  area |-> Frac(0, 1), perimeter |-> <<>>]
    IN  [heap |-> made.heap, poly |-> PolyRefresh(made.heap, blank)]

\* markDirty() of LazyCacheable, on a polygon.
PolyMarkDirty(poly) == [poly EXCEPT !.dirty = TRUE]

\* for (const vertex of this._vertices) vertex.add(offset): every entry of the
\* list is visited, so a Point that is in the list twice is moved twice.
RECURSIVE AddEach(_, _, _, _)
AddEach(h, vs, i, offset) ==
    IF i > Len(vs) THEN h
    ELSE AddEach([h EXCEPT ![vs[i]] = <<@[1] + offset[1], @[2] + offset[2]>>],
                 vs, i + 1, offset)

\* translate(offset)
PolyTranslate(h, poly, offset) ==
    [heap |-> AddEach(h, poly.vertices, 1, offset), poly |-> PolyMarkDirty(poly),
     ret |-> "this"]

\* setPosition(position: Point): this._position.copyFrom(x); markDirty()
PolySetPositionPoint(h, poly, p) ==
    [heap |-> h, poly |-> PolyMarkDirty([poly EXCEPT !.position = p]), ret |-> "this"]

\* setPosition(x, y): translate by (x, y) - _position, then _position is copied
\* from vertex 0.
PolySetPositionXY(h, poly, x, y) ==
    LET change == <<x - poly.position[1], y - poly.position[2]>>
        moved == PolyTranslate(h, poly, change)
    IN  [heap |-> moved.heap,
         poly |-> PolyMarkDirty([moved.poly EXCEPT
                                    !.position = moved.heap[poly.vertices[1]]]),
         ret |-> "this"]

\* The cosine and sine of a rotation by `turns` quarter turns: the angles whose
\* rotation maps integer points to integer points (exact arithmetic).
Cos(turns) == <<1, 0, 0 - 1, 0>>[(turns % 4) + 1]
Sin(turns) == <<0, 1, 0, 0 - 1>>[(turns % 4) + 1]

\* Point.rotate(radians, pivot)
PointRotate(v, turns, pivot) ==
    LET shifted == <<v[1] - pivot[1], v[2] - pivot[2]>>
    IN  <<shifted[1] * Cos(turns) - shifted[2] * Sin(turns) + pivot[1],
          shifted[1] * Sin(turns) + shifted[2] * Cos(turns) + pivot[2]>>

RECURSIVE RotateEach(_, _, _, _, _)
RotateEach(h, vs, i, turns, pivot) ==
    IF i > Len(vs) THEN h
    ELSE RotateEach([h EXCEPT ![vs[i]] = PointRotate(@, turns, pivot)],
                    vs, i + 1, turns, pivot)

\* rotateBy(angle, pivot)
PolyRotateBy(h, poly, turns, pivot) ==
    [heap |-> RotateEach(h, poly.vertices, 1, turns, pivot),
     poly |-> PolyMarkDirty(poly), ret |-> "this"]

\* vertex.subtract(pivot).multiply(scale).add(pivot)
RECURSIVE ScaleEach(_, _, _, _, _)
ScaleEach(h, vs, i, factor, pivot) ==
    IF i > Len(vs) THEN h
    ELSE ScaleEach([h EXCEPT ![vs[i]] = <<(@[1] - pivot[1]) * factor + pivot[1],
                                         (@[2] - pivot[2]) * factor + pivot[2]>>],
                   vs, i + 1, factor, pivot)

\* scale(scale, pivot)
PolyScale(h, poly, factor, pivot) ==
    [heap |-> ScaleEach(h, poly.vertices, 1, factor, pivot),
     poly |-> PolyMarkDirty(poly), ret |-> "this"]

\* The default pivot of rotateBy and scale, this._centroid: the cached field, read
\* without ensureRefreshed.
PolyDefaultPivot(poly) == poly.centroid

\* A fraction that is an integer, and the integer.
IsWhole(f) == f[1] % f[2] = 0
Whole(f) == f[1] \div f[2]

\* addVertex(vertex): the caller's Point itself is pushed.
PolyAddVertex(h, poly, id) ==
    [heap |-> h, poly |-> PolyMarkDirty([poly EXCEPT !.vertices = Append(@, id)]),
     ret |-> "this"]

\* Array.prototype.splice(index, 1), index 0-based and possibly negative or past
\* the end.
Splice1(s, index) ==
    LET start == IF index < 0 THEN (IF Len(s) + index < 0 THEN 0 ELSE Len(s) + index)
                 ELSE (IF index > Len(s) THEN Len(s) ELSE index)
    IN  IF start >= Len(s) THEN s ELSE RemoveAt(s, start + 1)

\* Mutant of PolyRemoveVertex: no check of the number of vertices.
PolyRemoveVertexUnguarded(h, poly, index) ==
    [heap |-> h, poly |-> PolyMarkDirty([poly EXCEPT !.vertices = Splice1(@, index)]),
     ret |-> "this"]

\* removeVertex(index)
PolyRemoveVertex(h, poly, index) ==
    IF Len(poly.vertices) = 3 THEN [heap |-> h, poly |-> poly, ret |-> "this"]
    ELSE [heap |-> h,
          poly |-> PolyMarkDirty([poly EXCEPT !.vertices = Splice1(@, index)]),
          ret |-> "this"]

\* updateVertex(index, vertex): the caller's Point itself is stored.
PolyUpdateVertex(h, poly, index, id) ==
    IF index < 0 \/ index >= Len(poly.vertices)
    THEN [heap |-> h, poly |-> poly, ret |-> "undefined"]
    ELSE [heap |-> h,
          poly |-> PolyMarkDirty([poly EXCEPT !.vertices[index + 1] = id]),
          ret |-> "this"]

\* clone(): new Polygon(this._vertices.map(clone)), then
\* clone.setPosition(this._position.x, this._position.y)
PolyClone(h, poly) ==
    LET made == PolyNew(h, Vals(h, poly.vertices))
        placed == PolySetPositionXY(made.heap, made.poly, poly.position[1],
                                    poly.position[2])
    IN  [heap |-> placed.heap, poly |-> placed.poly, ret |-> "clone"]

\* The inputs of the Polygon model: the vertex lists polygons are constructed
\* from, and the points, offsets, pivots, angles and factors the methods get.
PolyShapes == {<< <<0, 0>>, <<2, 0>>, <<0, 2>> >>,
               << <<0, 0>>, <<2, 0>>, <<2, 2>>, <<0, 2>> >>}
PolyShortShapes == {<< <<0, 0>>, <<2, 0>> >>}
PolyOffsets == {<<1, 0>>, <<0 - 1, 1>>}
PolyInputs == {<<0, 0>>, <<1, 1>>}
PolyPivots == {<<0, 0>>}
PolyTurns == {1, 2}
PolyFactors == {2}

\* The Point objects still referenced: the vertices of the polygons and the
\* Points the caller holds. The others are garbage.
PolyLive(polys, held) ==
    held \cup UNION {Range(polys[t].vertices) : t \in {n \in PolyNames : polys[n] # NoPoly}}

PolyCollect(h, polys, held) == [i \in DOMAIN h \cap PolyLive(polys, held) |-> h[i]]

\* Every coordinate and every list is within the model's bounds.
PolyBounded(h, polys) ==
    /\ \A i \in DOMAIN h : Abs(h[i][1]) <= MaxPolyCoord /\ Abs(h[i][2]) <= MaxPolyCoord
    /\ \A t \in PolyNames :
        polys[t] # NoPoly
        => /\ Len(polys[t].vertices) <= MaxPolyVertices
           /\ Abs(polys[t].position[1]) <= MaxPolyCoord
           /\ Abs(polys[t].position[2]) <= MaxPolyCoord

\* The check the constructor begins with: fewer than 3 vertices throw.
PolyNewThrows(vals) == Len(vals) < 3

\* new Polygon(points): the caller makes the Points, keeps its references to
\* them, and constructs the polygon from them; no polygon when that throws.
PolyInit ==
    \E shape \in PolyShapes \cup PolyShortShapes :
        LET given == NewPoints(<<>>, shape, <<>>)
            made == PolyNew(given.heap, Vals(given.heap, given.ids))
        IN  /\ gheld = Range(given.ids)
            /\ gsteps = 0
            /\ IF PolyNewThrows(shape)
               THEN /\ gheap = given.heap
                    /\ gpoly = [t \in PolyNames |-> NoPoly]
                    /\ glast = [op |-> "new", target |-> "src", ret |-> "threw",
                                arg |-> <<Len(shape)>>]
               ELSE /\ gheap = made.heap
                    /\ gpoly = [t \in PolyNames |->
                                    IF t = "src" THEN made.poly ELSE NoPoly]
                    /\ glast = [op |-> "new", target |-> "src", ret |-> "this",
                                arg |-> <<Len(shape)>>]

\* The polygon while another component is exercised.
PolyIdle ==
    LET made == PolyNew(<<>>, << <<0, 0>>, <<2, 0>>, <<0, 2>> >>) IN
    /\ gheap = made.heap
    /\ gpoly = [t \in PolyNames |-> IF t = "src" THEN made.poly ELSE NoPoly]
    /\ gheld = {}
    /\ gsteps = 0
    /\ glast = [op |-> "new", target |-> "src", ret |-> "this", arg |-> <<3>>]

PolyTargets == {t \in PolyNames : gpoly[t] # NoPoly}

\* One method call on polygon t with outcome r = [heap, poly, ret].
PolyStep(t, r, op, arg, held) ==
    LET polys == [gpoly EXCEPT ![t] = r.poly]
        h == PolyCollect(r.heap, polys, held)
    IN  /\ gsteps < MaxPolySteps
        /\ PolyBounded(h, polys)
        /\ gheap' = h
        /\ gpoly' = polys
        /\ gheld' = held
        /\ gsteps' = gsteps + 1
        /\ glast' = [op |-> op, target |-> t, ret |-> r.ret, arg |-> arg]
        /\ UNCHANGED notPoly

Translate ==
    \E t \in PolyTargets, offset \in PolyOffsets :
        PolyStep(t, PolyTranslate(gheap, gpoly[t], offset), "translate", offset, gheld)

SetPositionXY ==
    \E t \in PolyTargets, p \in PolyInputs :
        PolyStep(t, PolySetPositionXY(gheap, gpoly[t], p[1], p[2]), "setPositionXY",
                 p, gheld)

SetPositionPoint ==
    \E t \in PolyTargets, p \in PolyInputs :
        PolyStep(t, PolySetPositionPoint(gheap, gpoly[t], p), "setPositionPoint",
                 p, gheld)

\* rotateBy(angle, pivot) and rotateBy(angle): the default pivot is taken when the
\* cached centroid is an integer point.
RotateBy ==
    \E t \in PolyTargets, turns \in PolyTurns :
        \/ \E pivot \in PolyPivots :
            PolyStep(t, PolyRotateBy(gheap, gpoly[t], turns, pivot), "rotateBy",
                     pivot, gheld)
        \/ LET c == PolyDefaultPivot(gpoly[t]) IN
           /\ IsWhole(c[1]) /\ IsWhole(c[2])
           /\ PolyStep(t, PolyRotateBy(gheap, gpoly[t], turns, <<Whole(c[1]), Whole(c[2])>>),
                       "rotateBy", <<>>, gheld)

\* scale(scale, pivot) and scale(scale), as for rotateBy.
Scale ==
    \E t \in PolyTargets, factor \in PolyFactors :
        \/ \E pivot \in PolyPivots :
            PolyStep(t, PolyScale(gheap, gpoly[t], factor, pivot), "scale", pivot, gheld)
        \/ LET c == PolyDefaultPivot(gpoly[t]) IN
           /\ IsWhole(c[1]) /\ IsWhole(c[2])
           /\ PolyStep(t, PolyScale(gheap, gpoly[t], factor, <<Whole(c[1]), Whole(c[2])>>),
                       "scale", <<>>, gheld)

\* addVertex(vertex) with a new Point or with a Point the caller already holds.
AddVertex ==
    \E t \in PolyTargets :
        \/ \E p \in PolyInputs :
            LET made == NewPoints(gheap, <<p>>, <<>>) IN
            PolyStep(t, PolyAddVertex(made.heap, gpoly[t], made.ids[1]), "addVertex",
                     p, gheld \cup {made.ids[1]})
        \/ \E id \in gheld :
            PolyStep(t, PolyAddVertex(gheap, gpoly[t], id), "addVertex", gheap[id], gheld)

RemoveVertex ==
    \E t \in PolyTargets :
        \E index \in (0 - 1)..Len(gpoly[t].vertices) :
            PolyStep(t, PolyRemoveVertex(gheap, gpoly[t], index), "removeVertex",
                     <<index>>, gheld)

\* updateVertex(index, vertex) with a new Point or with one the caller holds.
UpdateVertex ==
    \E t \in PolyTargets :
        \E index \in (0 - 1)..Len(gpoly[t].vertices) :
            \/ \E p \in PolyInputs :
                LET made == NewPoints(gheap, <<p>>, <<>>) IN
                PolyStep(t, PolyUpdateVertex(made.heap, gpoly[t], index, made.ids[1]),
                         "updateVertex", <<index>>, gheld \cup {made.ids[1]})
            \/ \E id \in gheld :
                PolyStep(t, PolyUpdateVertex(gheap, gpoly[t], index, id),
                         "updateVertex", <<index>>, gheld)

\* A read of a derived getter (aabb, edges, centroid, isConcave, area, perimeter,
\* position, vertices): ensureRefreshed().
PolyRead ==
    \E t \in PolyTargets :
        PolyStep(t, [heap |-> gheap, poly |-> PolyEnsureRefreshed(gheap, gpoly[t]),
                     ret |-> "value"], "read", <<>>, gheld)

\* A read of the vertices getter: ensureRefreshed(), then a clone of every
\* vertex; the caller keeps the Points it got.
GetVertices ==
    \E t \in PolyTargets :
        LET fresh == PolyEnsureRefreshed(gheap, gpoly[t])
            got == NewPoints(gheap, Vals(gheap, fresh.vertices), <<>>)
        IN  PolyStep(t, [heap |-> got.heap, poly |-> fresh, ret |-> "value"],
                     "vertices", <<>>, gheld \cup Range(got.ids))

\* The caller mutates a Point it holds: Point.set(x, y).
PointSet ==
    \E id \in gheld, p \in PolyInputs :
        /\ gsteps < MaxPolySteps
        /\ gheap' = [gheap EXCEPT ![id] = p]
        /\ gsteps' = gsteps + 1
        /\ glast' = [op |-> "pointSet", target |-> "-", ret |-> "point", arg |-> p]
        /\ UNCHANGED <<gpoly, gheld>>
        /\ UNCHANGED notPoly

\* src.clone(), once.
Clone ==
    /\ gpoly["src"] # NoPoly
    /\ gpoly["clone"] = NoPoly
    /\ PolyStep("clone", PolyClone(gheap, gpoly["src"]), "clone", <<>>, gheld)

(***************************************************************************)
(* Polygon: the queries and the derived values, as functions of the vertex *)
(* list. A polygon is constructed from a list drawn from ShapeLists and is *)
(* then read and asked about points.                                       *)
(***************************************************************************)
MaxShapeCoord == 2

\* Mutant of PolyContainsPoint: an intercept at the point itself counts as
\* lying to its right.
RECURSIVE ContainsFromClosed(_, _, _, _)
ContainsFromClosed(vals, point, current, inside) ==
    IF current > Len(vals) THEN inside
    ELSE LET currentVertex == vals[current]
             nextVertex == vals[(current % Len(vals)) + 1]
             crossesVerticalSpan ==
                 (currentVertex[2] > point[2]) # (nextVertex[2] > point[2])
             edge == <<nextVertex[1] - currentVertex[1], nextVertex[2] - currentVertex[2]>>
             left == (point[1] - currentVertex[1]) * edge[2]
             right == edge[1] * (point[2] - currentVertex[2])
             toTheRight == IF edge[2] > 0 THEN left <= right ELSE left >= right
         IN  IF ~crossesVerticalSpan
             THEN ContainsFromClosed(vals, point, current + 1, inside)
             ELSE ContainsFromClosed(vals, point, current + 1,
                                     IF toTheRight THEN ~inside ELSE inside)

\* The loop of containsPoint(point) from edge `current` on. The test
\* point.x < currentVertex.x + edge.x * (point.y - currentVertex.y) / edge.y is
\* made without the division: both sides times edge.y, which is not 0 on an
\* edge that crosses the span and turns the comparison when negative.
RECURSIVE ContainsFrom(_, _, _, _)
ContainsFrom(vals, point, current, inside) ==
    IF current > Len(vals) THEN inside
    ELSE LET currentVertex == vals[current]
             nextVertex == vals[(current % Len(vals)) + 1]
             crossesVerticalSpan ==
                 (currentVertex[2] > point[2]) # (nextVertex[2] > point[2])
             edge == <<nextVertex[1] - currentVertex[1], nextVertex[2] - currentVertex[2]>>
             left == (point[1] - currentVertex[1]) * edge[2]
             right == edge[1] * (point[2] - currentVertex[2])
             toTheRight == IF edge[2] > 0 THEN left < right ELSE left > right
         IN  IF ~crossesVerticalSpan
             THEN ContainsFrom(vals, point, current + 1, inside)
             ELSE ContainsFrom(vals, point, current + 1,
                               IF toTheRight THEN ~inside ELSE inside)

\* containsPoint(point): on this._vertices as they are.
PolyContainsPoint(h, poly, point) == ContainsFrom(Vals(h, poly.vertices), point, 1, FALSE)

\* The 4-vertex lists of the axis-aligned rectangle x0 < x1, y0 < y1: from
\* each corner, in both winding orders.
RectLists(x0, y0, x1, y1) ==
    LET ring == << <<x0, y0>>, <<x1, y0>>, <<x1, y1>>, <<x0, y1>> >>
    IN  {[i \in 1..4 |-> ring[((i - 1 + k) % 4) + 1]] : k \in 0..3}
        \cup {[i \in 1..4 |-> ring[((k + 4 - i) % 4) + 1]] : k \in 0..3}

ShapeCorners ==
    {q \in (0..(MaxShapeCoord + 1)) \X (0..(MaxShapeCoord + 1))
            \X (0..(MaxShapeCoord + 1)) \X (0..(MaxShapeCoord + 1)) :
        q[1] < q[3] /\ q[2] < q[4]}

ShapeRects == UNION {RectLists(q[1], q[2], q[3], q[4]) : q \in ShapeCorners}

ShapeGrid == {<<x, y>> : x \in 0..MaxShapeCoord, y \in 0..MaxShapeCoord}

\* The concave example and the same polygon without its dent, and the unit
\* square scaled by 10.
ShapeConcave == << <<0, 0>>, <<4, 0>>, <<2, 1>>, <<4, 4>>, <<0, 4>> >>
ShapeDentRemoved == << <<0, 0>>, <<4, 0>>, <<4, 4>>, <<0, 4>> >>
ShapeSquare10 == << <<0, 0>>, <<10, 0>>, <<10, 10>>, <<0, 10>> >>

\* The vertex lists: the rectangles, every triangle and quadrilateral from the
\* origin over the grid (the degenerate ones included), and the examples.
ShapeLists ==
    ShapeRects
    \cup {<< <<0, 0>>, b, c >> : b \in ShapeGrid, c \in ShapeGrid}
    \cup {<< <<0, 0>>, b, c, d >> : b \in ShapeGrid, c \in ShapeGrid, d \in ShapeGrid}
    \cup {ShapeConcave, ShapeDentRemoved, ShapeSquare10}

ShapeProbes ==
    {<<x, y>> : x \in (0 - 1)..(MaxShapeCoord + 2), y \in (0 - 1)..(MaxShapeCoord + 2)}
    \cup {<<5, 5>>, <<50, 50>>}

ShapeInit ==
    \E shape \in ShapeLists :
        LET made == PolyNew(<<>>, shape) IN
        /\ gheap = made.heap
        /\ gpoly = [t \in PolyNames |-> IF t = "src" THEN made.poly ELSE NoPoly]
        /\ gheld = {}
        /\ gsteps = 0
        /\ glast = [op |-> "new", target |-> "src", ret |-> "this", arg |-> <<Len(shape)>>]

\* A read of the derived getters of the polygon.
ShapeRead ==
    /\ gpoly' = [gpoly EXCEPT !["src"] = PolyEnsureRefreshed(gheap, @)]
    /\ glast' = [op |-> "read", target |-> "src", ret |-> "value", arg |-> <<>>]
    /\ UNCHANGED <<gheap, gheld, gsteps>>
    /\ UNCHANGED notPoly

\* polygon.containsPoint(point)
ContainsPoint ==
    /\ \E point \in ShapeProbes :
        glast' = [op |-> "containsPoint", target |-> "src",
                  ret |-> IF PolyContainsPoint(gheap, gpoly["src"], point)
                          THEN "true" ELSE "false",
                  arg |-> point]
    /\ UNCHANGED <<gheap, gpoly, gheld, gsteps>>
    /\ UNCHANGED notPoly

(***************************************************************************)
(* Polygon: the properties.                                                *)
(***************************************************************************)

\* What the position getter of polygon t returns: ensureRefreshed(), then
\* this._position.
PolyPosition(h, poly) == PolyEnsureRefreshed(h, poly).position

\* C7: after any sequence of translate, rotateBy, scale, setPosition (either
\* overload), addVertex, removeVertex and updateVertex, the position getter of a
\* polygon equals the polygon's current vertex 0.
C7_PositionIsVertex0 ==
    \A t \in PolyTargets :
        PolyPosition(gheap, gpoly[t]) = gheap[gpoly[t].vertices[1]]

\* C8: clone() returns a polygon whose vertices are equal in value and order to
\* the source's current vertices and that shares no Point object with the
\* source; afterwards a mutation of one of the two polygons leaves the vertices
\* and the position of the other unchanged.
C8_CloneIsDeepEqualCopy ==
    [][/\ (gpoly["clone"] = NoPoly /\ gpoly'["clone"] # NoPoly)
          => /\ Vals(gheap', gpoly'["clone"].vertices) = Vals(gheap, gpoly["src"].vertices)
             /\ Range(gpoly'["clone"].vertices) \cap Range(gpoly'["src"].vertices) = {}
             /\ gpoly'["src"] = gpoly["src"]
             /\ Vals(gheap', gpoly'["src"].vertices) = Vals(gheap, gpoly["src"].vertices)
       /\ \A t \in PolyTargets, u \in PolyTargets :
            (/\ t # u
             /\ glast'.target = t
             /\ gsteps' # gsteps
             /\ Range(gpoly[t].vertices) \cap Range(gpoly[u].vertices) = {}
             /\ Range(gpoly'[t].vertices) \cap Range(gpoly[u].vertices) = {})
            => /\ gpoly'[u] = gpoly[u]
               /\ Vals(gheap', gpoly'[u].vertices) = Vals(gheap, gpoly[u].vertices)
      ]_vars

\* Every vertex of vals moved by delta.
Shifted(vals, delta) ==
    [i \in DOMAIN vals |-> <<vals[i][1] + delta[1], vals[i][2] + delta[2]>>]

\* C9: setPosition(x, y) and setPosition(Point(x, y)) both translate every
\* vertex by the delta between (x, y) and the current position and leave
\* position = vertex 0 = (x, y); hence the two overloads applied to equal
\* polygons give equal vertices and positions.
C9_SetPositionTranslates ==
    [][(gsteps' # gsteps /\ glast'.op \in {"setPositionXY", "setPositionPoint"})
       => LET t == glast'.target
              p == glast'.arg
              before == PolyPosition(gheap, gpoly[t])
              delta == <<p[1] - before[1], p[2] - before[2]>>
          IN  /\ Vals(gheap', gpoly'[t].vertices)
                   = Shifted(Vals(gheap, gpoly[t].vertices), delta)
              /\ PolyPosition(gheap', gpoly'[t]) = p
              /\ gheap'[gpoly'[t].vertices[1]] = p
      ]_vars

\* C11: removeVertex on a polygon with exactly 3 vertices and updateVertex with
\* an index outside [0, vertexCount) leave the vertex list and the dirty flag
\* unchanged and return the polygon itself.
C11_RecoverableErrorsChain ==
    [][(/\ gsteps' # gsteps
        /\ \/ /\ glast'.op = "removeVertex"
              /\ Len(gpoly[glast'.target].vertices) = 3
           \/ /\ glast'.op = "updateVertex"
              /\ \/ glast'.arg[1] < 0
                 \/ glast'.arg[1] >= Len(gpoly[glast'.target].vertices))
       => LET t == glast'.target
          IN  /\ gpoly'[t].vertices = gpoly[t].vertices
              /\ Vals(gheap', gpoly'[t].vertices) = Vals(gheap, gpoly[t].vertices)
              /\ gpoly'[t].dirty = gpoly[t].dirty
              /\ glast'.ret = "this"
      ]_vars

\* C12: mutating a Point the caller passed to the constructor, to addVertex or
\* to updateVertex, or got from the vertices getter, never changes a polygon's
\* vertices or derived values.
C12_OwnVertexStorage ==
    [][(gsteps' # gsteps /\ glast'.op = "pointSet")
       => \A t \in PolyTargets :
            /\ Vals(gheap', gpoly'[t].vertices) = Vals(gheap, gpoly[t].vertices)
            /\ PolyEnsureRefreshed(gheap', gpoly'[t]) = PolyEnsureRefreshed(gheap, gpoly[t])
      ]_vars

\* Polygon poly has at least 3 vertices, and its edges getter returns one edge
\* per vertex, edge[i] = vertices[(i + 1) mod n] - vertices[i].
PolyFloor(h, poly) ==
    LET seen == PolyEnsureRefreshed(h, poly)
        vals == Vals(h, seen.vertices)
        n == Len(vals)
    IN  /\ n >= 3
        /\ Len(seen.edges) = n
        /\ \A i \in 1..n :
            seen.edges[i] = <<vals[(i % n) + 1][1] - vals[i][1],
                              vals[(i % n) + 1][2] - vals[i][2]>>

\* C17: construction with fewer than 3 vertices throws, a constructed polygon
\* has at least 3 vertices and one edge per vertex, edge[i] =
\* vertices[(i + 1) mod n] - vertices[i], and addVertex, removeVertex (any
\* index) and updateVertex keep it so.
C17_VertexFloor ==
    /\ (glast.ret = "threw") = (glast.arg[1] < 3)
    /\ (glast.ret = "threw") = (gpoly["src"] = NoPoly)
    /\ gpoly["src"] # NoPoly => PolyFloor(gheap, gpoly["src"])
    /\ [][(/\ gsteps' # gsteps
           /\ glast'.op \in {"addVertex", "removeVertex", "updateVertex"}
           /\ PolyFloor(gheap, gpoly[glast'.target]))
          => PolyFloor(gheap', gpoly'[glast'.target])
         ]_vars

\* C17 witness: removeVertex was called on a polygon that now has exactly 3
\* vertices, after an addVertex or removeVertex changed the number.
C17_Witness ==
    /\ gsteps >= 2
    /\ glast.op = "removeVertex"
    /\ Len(gpoly[glast.target].vertices) = 3
    /\ Len(gpoly[glast.target].edges) # 3

\* The vertex list vals is an axis-aligned rectangle with corners (x0, y0) and
\* (x1, y1), x0 < x1 and y0 < y1, in either winding order.
IsRectList(vals, x0, y0, x1, y1) ==
    /\ x0 < x1 /\ y0 < y1
    /\ vals \in RectLists(x0, y0, x1, y1)

\* The corners of the bounding box of a vertex list.
BoxOf(vals) ==
    LET xs == {vals[i][1] : i \in 1..Len(vals)}
        ys == {vals[i][2] : i \in 1..Len(vals)}
    IN  [x0 |-> Min(xs), y0 |-> Min(ys), x1 |-> Max(xs), y1 |-> Max(ys)]

\* C18: on an axis-aligned rectangle polygon (x0,y0),(x1,y0),(x1,y1),(x0,y1),
\* x0 < x1, y0 < y1, in either winding order, containsPoint(px, py) is true
\* exactly when x0 <= px < x1 and y0 <= py < y1: true strictly inside, false
\* strictly outside, half-open on the boundary; for the square scaled by 10,
\* (5,5) is inside and (50,50) outside.
C18_RectContainsHalfOpen ==
    LET vals == Vals(gheap, gpoly["src"].vertices)
        box == BoxOf(vals)
        point == glast.arg
    IN  (glast.op = "containsPoint" /\ IsRectList(vals, box.x0, box.y0, box.x1, box.y1))
        => /\ (glast.ret = "true")
                = (/\ box.x0 <= point[1] /\ point[1] < box.x1
                   /\ box.y0 <= point[2] /\ point[2] < box.y1)
           /\ (vals = ShapeSquare10 /\ point = <<5, 5>>) => glast.ret = "true"
           /\ (vals = ShapeSquare10 /\ point = <<50, 50>>) => glast.ret = "false"

\* C18 witness: a rectangle in clockwise order was asked about a point on its
\* right side, which is outside.
C18_Witness ==
    LET vals == Vals(gheap, gpoly["src"].vertices)
        box == BoxOf(vals)
    IN  /\ glast.op = "containsPoint"
        /\ IsRectList(vals, box.x0, box.y0, box.x1, box.y1)
        /\ vals[2][1] = vals[1][1]
        /\ glast.arg[1] = box.x1
        /\ box.y0 < glast.arg[2] /\ glast.arg[2] < box.y1
        /\ glast.ret = "false"

\* The z cross product at corner i of vals: (previous, current, next).
CornerCross(vals, i) ==
    LET n == Len(vals)
        prev == vals[((i + n - 2) % n) + 1]
        next == vals[(i % n) + 1]
    IN  (vals[i][1] - prev[1]) * (next[2] - vals[i][2])
          - (vals[i][2] - prev[2]) * (next[1] - vals[i][1])

\* C19: a polygon with 3 vertices is never concave; with more than 3, isConcave
\* is true exactly when two corners have cross products of strictly opposite
\* sign, zero cross products being ignored; [(0,0),(4,0),(2,1),(4,4),(0,4)] is
\* concave and the same polygon without (2,1) is not.
C19_ConcaveIffOppositeSigns ==
    LET seen == PolyEnsureRefreshed(gheap, gpoly["src"])
        vals == Vals(gheap, seen.vertices)
        n == Len(vals)
    IN  /\ n = 3 => ~seen.isConcave
        /\ n > 3 => seen.isConcave
                      = (\E i \in 1..n, j \in 1..n :
                            CornerCross(vals, i) > 0 /\ CornerCross(vals, j) < 0)
        /\ vals = ShapeConcave => seen.isConcave
        /\ vals = ShapeDentRemoved => ~seen.isConcave

\* C19 witness: the concave example, read.
C19_Witness ==
    /\ Vals(gheap, gpoly["src"].vertices) = ShapeConcave
    /\ glast.op = "read"
    /\ ~gpoly["src"].dirty
    /\ gpoly["src"].isConcave

\* The sum of f[1], ..., f[n].
RECURSIVE SumTo(_, _)
SumTo(f, n) == IF n = 0 THEN 0 ELSE f[n] + SumTo(f, n - 1)

\* The shoelace terms x[i] * y[i+1] - x[i+1] * y[i] of a vertex list, and the
\* terms of the centroid's weighted sums.
ShoelaceTerms(vals) ==
    [i \in 1..Len(vals) |->
        vals[i][1] * vals[(i % Len(vals)) + 1][2]
          - vals[(i % Len(vals)) + 1][1] * vals[i][2]]

WeightedTerms(vals, k) ==
    [i \in 1..Len(vals) |->
        (vals[i][k] + vals[(i % Len(vals)) + 1][k]) * ShoelaceTerms(vals)[i]]

Reversed(vals) == [i \in 1..Len(vals) |-> vals[Len(vals) + 1 - i]]

\* The fraction f equals n / d.
FracIs(f, n, d) == f[2] # 0 /\ d # 0 /\ f[1] * d = n * f[2]

IsSquareNumber(n) == \E r \in 0..n : r * r = n
Root(n) == CHOOSE r \in 0..n : r * r = n

\* C20: for integer vertices the area is the shoelace sum over consecutive
\* vertex pairs divided by 2, and reversing the vertex order negates it; the
\* centroid is the weighted sums divided by 6 * area, and (0,0) for a polygon
\* of zero area; for an axis-aligned w-by-h rectangle |area| = w * h,
\* perimeter = 2(w + h), the centroid is the centre and isConcave is false.
C20_AreaAndCentroid ==
    LET seen == PolyEnsureRefreshed(gheap, gpoly["src"])
        vals == Vals(gheap, seen.vertices)
        n == Len(vals)
        sum == SumTo(ShoelaceTerms(vals), n)
        box == BoxOf(vals)
        w == box.x1 - box.x0
        h == box.y1 - box.y0
    IN  /\ FracIs(seen.area, sum, 2)
        /\ FracIs(calculateArea(Reversed(vals)), 0 - sum, 2)
        /\ sum # 0 => /\ FracIs(seen.centroid[1], SumTo(WeightedTerms(vals, 1), n), 3 * sum)
                      /\ FracIs(seen.centroid[2], SumTo(WeightedTerms(vals, 2), n), 3 * sum)
        /\ sum = 0 => FracIs(seen.centroid[1], 0, 1) /\ FracIs(seen.centroid[2], 0, 1)
        /\ IsRectList(vals, box.x0, box.y0, box.x1, box.y1)
           => /\ FracIs(seen.area, w * h, 1) \/ FracIs(seen.area, 0 - w * h, 1)
              /\ \A i \in 1..n : IsSquareNumber(seen.perimeter[i])
              /\ SumTo([i \in 1..n |-> Root(seen.perimeter[i])], n) = 2 * (w + h)
              /\ FracIs(seen.centroid[1], box.x0 + box.x1, 2)
              /\ FracIs(seen.centroid[2], box.y0 + box.y1, 2)
              /\ ~seen.isConcave

\* C20 witness: a rectangle in clockwise order, read: its area is negative.
C20_Witness ==
    LET vals == Vals(gheap, gpoly["src"].vertices)
        box == BoxOf(vals)
    IN  /\ glast.op = "read"
        /\ ~gpoly["src"].dirty
        /\ IsRectList(vals, box.x0, box.y0, box.x1, box.y1)
        /\ gpoly["src"].area[1] < 0

\* C20 witness of the degenerate case: a polygon of zero area, read.
C20_WitnessFlat ==
    /\ glast.op = "read"
    /\ ~gpoly["src"].dirty
    /\ gpoly["src"].area[1] = 0
    /\ Len(gpoly["src"].vertices) = 4

\* Two fractions that are the same number.
FracEq(f, g) == f[1] * g[2] = g[1] * f[2]

\* C28: scale(factor) and rotateBy(angle) called without a pivot use the
\* centroid of the polygon's current vertices, also directly after another
\* mutator with no getter read in between; so scale(factor) without a pivot
\* leaves the centroid of the polygon where it was.
C28_DefaultPivotIsCentroid ==
    [][\A t \in PolyNames :
        (glast'.target = t /\ glast'.op \in {"scale", "rotateBy"} /\ glast'.arg = <<>>)
        => LET before == calculateCentroid(Vals(gheap, gpoly[t].vertices))
               after == calculateCentroid(Vals(gheap', gpoly'[t].vertices))
               pivot == PolyDefaultPivot(gpoly[t])
           IN  /\ FracEq(pivot[1], before[1])
               /\ FracEq(pivot[2], before[2])
               /\ glast'.op = "scale"
                  => (FracEq(after[1], before[1]) /\ FracEq(after[2], before[2]))
      ]_vars

(***************************************************************************)
(* Rect (packages/math/src/geometry/rect.ts)                               *)
(*                                                                         *)
(* A Rect is [position, size, dirty, vertices, aabb]. The _aabb field is   *)
(* [kind |-> "undefined"] before the first refresh, [kind |-> "this"] when *)
(* it refers to the Rect itself, and otherwise the Rect it refers to, with *)
(* kind "rect". A Rect also carries id, which tells one instance from      *)
(* another: <<>> for a Rect its caller constructed, and the id of its      *)
(* owner with a number appended for a Rect that calculateAABB constructed; *)
(* made counts the Rects its calculateAABB has constructed.                *)
(***************************************************************************)
MaxRectCoord == 1
MaxAabbDepth == 3

\* A number argument: a finite number, or one Number.isFinite rejects.
Num(n) == [finite |-> TRUE, value |-> n]
NaN == [finite |-> FALSE, value |-> 0]
RectNums == {Num(n) : n \in 0..MaxRectCoord} \cup {NaN}
RectPoints == {<<x, y>> : x \in 0..MaxRectCoord, y \in 0..MaxRectCoord}

\* isSize(size): both members are finite numbers.
isSize(size) == size.width.finite /\ size.height.finite

\* The fields of a Rect before the constructor's body runs.
RectBlank ==
    [kind |-> "rect", position |-> <<0, 0>>, size |-> [width |-> 0, height |-> 0],
     dirty |-> TRUE, vertices |-> <<>>, aabb |-> [kind |-> "undefined"],
     id |-> <<>>, made |-> 0]

RectMarkDirty(r) == [r EXCEPT !.dirty = TRUE]

\* setPosition(position: Point)
RectSetPositionPoint(r, p) == RectMarkDirty([r EXCEPT !.position = p])

\* setPosition(x, y): a non-finite argument is warned about and ignored.
RectSetPositionXY(r, x, y) ==
    IF ~x.finite \/ ~y.finite THEN r
    ELSE RectMarkDirty([r EXCEPT !.position = <<x.value, y.value>>])

\* setSize(width, height)
RectSetSizeWH(r, width, height) ==
    IF ~width.finite \/ ~height.finite THEN r
    ELSE RectMarkDirty([r EXCEPT !.size = [width |-> width.value,
                                           height |-> height.value]])

\* setSize(size: Size): an object that fails isSize takes the numbers' branch,
\* where Number.isFinite rejects it.
RectSetSizeObj(r, size) ==
    IF isSize(size)
    THEN RectMarkDirty([r EXCEPT !.size = [width |-> size.width.value,
                                           height |-> size.height.value]])
    ELSE r

\* new Rect(x, y, width, height)
RectNew(x, y, width, height) ==
    RectSetSizeWH(RectSetPositionXY(RectBlank, x, y), width, height)

\* calculateVertices()
RectCalculateVertices(r) ==
    [r EXCEPT !.vertices =
        << <<r.position[1], r.position[2]>>,
           <<r.position[1] + r.size.width, r.position[2]>>,
           <<r.position[1] + r.size.width, r.position[2] + r.size.height>>,
           <<r.position[1], r.position[2] + r.size.height>> >>]

\* Mutant of RectCalculateAABB: the new Rect's own _aabb is left unset.
RectCalculateAABBUnguarded(r) ==
    IF r.aabb.kind = "this" THEN r
    ELSE IF r.aabb.kind = "undefined"
    THEN [r EXCEPT !.aabb =
            [RectNew(Num(r.position[1]), Num(r.position[2]),
                     Num(r.size.width), Num(r.size.height))
                EXCEPT !.id = Append(r.id, r.made + 1)],
                   !.made = @ + 1]
    ELSE [r EXCEPT !.aabb.position = r.position, !.aabb.size = r.size]

\* calculateAABB(): nothing when _aabb is this; a new Rect whose own _aabb is
\* itself when _aabb is not set; otherwise the fields _position and _size of
\* the existing one are written and nothing else of it.
RectCalculateAABB(r) ==
    IF r.aabb.kind = "this" THEN r
    ELSE IF r.aabb.kind = "undefined"
    THEN [r EXCEPT !.aabb =
            [RectNew(Num(r.position[1]), Num(r.position[2]),
                     Num(r.size.width), Num(r.size.height))
                EXCEPT !.aabb = [kind |-> "this"], !.id = Append(r.id, r.made + 1)],
                   !.made = @ + 1]
    ELSE [r EXCEPT !.aabb.position = r.position, !.aabb.size = r.size]

\* refresh()
RectRefresh(r) == RectCalculateVertices(RectCalculateAABB(r))

\* ensureRefreshed() of LazyCacheable on a Rect
RectEnsureRefreshed(r) ==
    IF ~r.dirty THEN r ELSE [RectRefresh(r) EXCEPT !.dirty = FALSE]

\* rect.aabb followed by a getter of the returned Rect: both are refreshed.
RectEnsureAabbRefreshed(r) ==
    LET fresh == RectEnsureRefreshed(r)
    IN  [fresh EXCEPT !.aabb = RectEnsureRefreshed(@)]

\* rlast when the last operation was neither contains nor intersects.
RectNoShape == [kind |-> "none"]
RectNoCall == [op |-> "none", point |-> <<0, 0>>, shape |-> RectNoShape, ret |-> FALSE]

\* A chain of depth reads of aabb, r.aabb.aabb and so on: each read refreshes
\* the Rect it is made on and returns its _aabb.
RECURSIVE AabbChain(_, _)
AabbChain(r, depth) ==
    IF depth = 0 THEN r
    ELSE LET fresh == RectEnsureRefreshed(r)
         IN  IF fresh.aabb.kind = "this" THEN fresh
             ELSE [fresh EXCEPT !.aabb = AabbChain(@, depth - 1)]

\* The Rects that calculateAABB has constructed, for r and the Rects below it.
RECURSIVE TotalMade(_)
TotalMade(r) ==
    r.made + (IF r.aabb.kind = "rect" THEN TotalMade(r.aabb) ELSE 0)

RectInit ==
    /\ \E x \in RectNums, y \in RectNums, width \in RectNums, height \in RectNums :
        rect = RectNew(x, y, width, height)
    /\ rlast = RectNoCall

\* The Rect while another component is exercised.
RectIdle ==
    /\ rect = RectNew(Num(0), Num(0), Num(1), Num(1))
    /\ rlast = RectNoCall

SetRectPositionXY ==
    /\ \E x \in RectNums, y \in RectNums : rect' = RectSetPositionXY(rect, x, y)
    /\ rlast' = RectNoCall
    /\ UNCHANGED notRect

SetRectPositionPoint ==
    /\ \E p \in RectPoints : rect' = RectSetPositionPoint(rect, p)
    /\ rlast' = RectNoCall
    /\ UNCHANGED notRect

SetRectSizeWH ==
    /\ \E width \in RectNums, height \in RectNums :
        rect' = RectSetSizeWH(rect, width, height)
    /\ rlast' = RectNoCall
    /\ UNCHANGED notRect

SetRectSizeObj ==
    /\ \E width \in RectNums, height \in RectNums :
        rect' = RectSetSizeObj(rect, [width |-> width, height |-> height])
    /\ rlast' = RectNoCall
    /\ UNCHANGED notRect

\* A read of rect.aabb, rect.x, rect.y, rect.width, rect.height, rect.size,
\* rect.position or rect.vertices.
ReadRect ==
    /\ rect' = RectEnsureRefreshed(rect)
    /\ rlast' = RectNoCall
    /\ UNCHANGED notRect

\* A read of a getter of the Rect that rect.aabb returns, rect.aabb.vertices
\* for one.
ReadRectAabb ==
    /\ rect' = RectEnsureAabbRefreshed(rect)
    /\ rlast' = RectNoCall
    /\ UNCHANGED notRect

\* A chain of reads rect.aabb, rect.aabb.aabb, ...
ReadAabbChain ==
    /\ \E depth \in 1..MaxAabbDepth : rect' = AabbChain(rect, depth)
    /\ rlast' = [RectNoCall EXCEPT !.op = "aabb"]
    /\ UNCHANGED notRect

(***************************************************************************)
(* Rect: the properties.                                                   *)
(***************************************************************************)

\* C10: after any sequence of setPosition and setSize interleaved with getter
\* reads (reads of rect.aabb.vertices included), the Rect that rect.aabb
\* returns has the x, y, width and height of rect, and its vertices equal
\* rect.vertices.
C10_AabbFollowsRect ==
    LET seen == RectEnsureAabbRefreshed(rect)
    IN  /\ seen.aabb.position = seen.position
        /\ seen.aabb.size = seen.size
        /\ seen.aabb.vertices = seen.vertices

\* C29: reading aabb of a constructed Rect terminates; rect.aabb is a Rect
\* other than rect with the position and size of rect; rect.aabb.aabb is
\* rect.aabb itself, so a chain of aabb reads of any depth allocates no
\* further Rect; and reads of rect.aabb across mutations return one instance.
C29_AabbRecursionGuard ==
    [][/\ rlast'.op = "aabb" =>
            /\ rect'.aabb.kind = "rect"
            /\ rect'.aabb.id # rect'.id
            /\ rect'.aabb.position = rect'.position
            /\ rect'.aabb.size = rect'.size
            /\ rect'.aabb.aabb.kind = "this"
            /\ TotalMade(rect') = 1
            /\ \A depth \in 1..MaxAabbDepth :
                 LET read == AabbChain(rect', depth)
                 IN  TotalMade(read) = 1 /\ read.aabb.id = rect'.aabb.id
       /\ rect.aabb.kind = "rect"
          => (rect'.aabb.kind = "rect" /\ rect'.aabb.id = rect.aabb.id)
      ]_vars

\* C29 witness: after mutations of the Rect and reads through rect.aabb, a
\* chain of aabb reads has returned the one Rect that the first read made; its
\* cached vertices are those of an earlier read.
C29_Witness ==
    /\ rlast.op = "aabb"
    /\ rect.made = 1
    /\ rect.aabb.id = <<1>>
    /\ rect.aabb.vertices # <<>>
    /\ rect.aabb.vertices # rect.vertices

(***************************************************************************)
(* Circle (unnamed/part_003)                                               *)
(*                                                                         *)
(* Numbers that can be NaN are [finite, value] records as for Rect; an     *)
(* arithmetic operation with NaN gives NaN and a comparison with NaN is    *)
(* false, as in JavaScript.                                                *)
(***************************************************************************)
MaxCircCoord == 2
MaxCircRadius == 2

NumAdd(a, b) == IF a.finite /\ b.finite THEN Num(a.value + b.value) ELSE NaN
NumSub(a, b) == IF a.finite /\ b.finite THEN Num(a.value - b.value) ELSE NaN
NumMul(a, b) == IF a.finite /\ b.finite THEN Num(a.value * b.value) ELSE NaN
NumLeq(a, b) == a.finite /\ b.finite /\ a.value <= b.value

CircRadii == {Num(n) : n \in (0 - 1)..MaxCircRadius} \cup {NaN}
CircPoints == {<<x, y>> : x \in 0..1, y \in 0..1}
CircOffsets == {<<1, 0>>, <<0 - 1, 1>>}
NoCircle == [exists |-> FALSE]
NoArg == [radius |-> Num(0), point |-> <<0, 0>>]

\* The fields of a Circle before the constructor's body runs.
CircleBlank ==
    [exists |-> TRUE, position |-> <<0, 0>>, radius |-> Num(0),
     squaredRadius |-> Num(0), aabb |-> RectNew(Num(0), Num(0), Num(0), Num(0)),
     dirty |-> TRUE, refreshes |-> 0]

\* markDirty() of LazyCacheable on a Circle: a new dirty period begins.
CircleMarkDirty(c) == [c EXCEPT !.dirty = TRUE, !.refreshes = 0]

\* Mutant of CircleTranslate: the position moves and the flag is left alone.
CircleTranslateUnmarked(c, offset) ==
    [c EXCEPT !.position = <<@[1] + offset[1], @[2] + offset[2]>>]

\* translate(offset)
CircleTranslate(c, offset) ==
    CircleMarkDirty([c EXCEPT !.position = <<@[1] + offset[1], @[2] + offset[2]>>])

\* setPosition(position)
CircleSetPosition(c, p) == CircleMarkDirty([c EXCEPT !.position = p])

\* setRadius(radius): throws when radius <= 0, which is false for NaN.
CircleSetRadius(c, radius) ==
    IF NumLeq(radius, Num(0)) THEN [circle |-> c, threw |-> TRUE]
    ELSE [circle |-> CircleMarkDirty([c EXCEPT !.radius = radius,
                                               !.squaredRadius = NumMul(radius, radius)]),
          threw |-> FALSE]

\* refresh(): calculateAABB (a new Rect), calculateSquaredRadius; the area and
\* the circumference, multiples of Math.PI, are left out.
CircleRefresh(c) ==
    [c EXCEPT !.aabb = RectNew(NumSub(Num(c.position[1]), c.radius),
                               NumSub(Num(c.position[2]), c.radius),
                               NumMul(c.radius, Num(2)), NumMul(c.radius, Num(2))),
              !.squaredRadius = NumMul(c.radius, c.radius),
              !.refreshes = @ + 1]

\* ensureRefreshed() of LazyCacheable on a Circle
CircleEnsureRefreshed(c) ==
    IF ~c.dirty THEN c ELSE [CircleRefresh(c) EXCEPT !.dirty = FALSE]

\* new Circle(position, radius): setPosition, setRadius, refresh(); the flag
\* stays as markDirty left it. No Circle when setRadius throws.
CircleNew(p, radius) ==
    LET sized == CircleSetRadius(CircleSetPosition(CircleBlank, p), radius)
    IN  IF sized.threw THEN [circle |-> NoCircle, threw |-> TRUE]
        ELSE [circle |-> CircleRefresh(sized.circle), threw |-> FALSE]

\* Mutant of CircleContainsPoint: the boundary is left out.
CircleContainsPointOpen(c, p) ==
    LET dx == p[1] - c.position[1]
        dy == p[2] - c.position[2]
    IN  /\ NumLeq(Num(dx * dx + dy * dy), c.squaredRadius)
        /\ Num(dx * dx + dy * dy) # c.squaredRadius

\* containsPoint(point), on the fields as they are
CircleContainsPoint(c, p) ==
    LET dx == p[1] - c.position[1]
        dy == p[2] - c.position[2]
    IN  NumLeq(Num(dx * dx + dy * dy), c.squaredRadius)

CircleInit ==
    \E p \in CircPoints, radius \in CircRadii :
        /\ circ = CircleNew(p, radius).circle
        /\ clast = [op |-> "new", arg |-> [radius |-> radius, point |-> p],
                    ret |-> FALSE, threw |-> CircleNew(p, radius).threw]

\* The Circle while another component is exercised.
CircleIdle ==
    /\ circ = CircleNew(<<0, 0>>, Num(1)).circle
    /\ clast = [op |-> "new", arg |-> [radius |-> Num(1), point |-> <<0, 0>>],
                ret |-> FALSE, threw |-> FALSE]

\* Another Circle is constructed and takes the place of the one there was.
NewCircle ==
    /\ \E p \in CircPoints, radius \in CircRadii :
        /\ circ' = CircleNew(p, radius).circle
        /\ clast' = [op |-> "new", arg |-> [radius |-> radius, point |-> p],
                     ret |-> FALSE, threw |-> CircleNew(p, radius).threw]
    /\ UNCHANGED notCirc

SetRadius ==
    /\ circ.exists
    /\ \E radius \in CircRadii :
        /\ circ' = CircleSetRadius(circ, radius).circle
        /\ clast' = [op |-> "setRadius", arg |-> [NoArg EXCEPT !.radius = radius],
                     ret |-> FALSE, threw |-> CircleSetRadius(circ, radius).threw]
    /\ UNCHANGED notCirc

SetCirclePosition ==
    /\ circ.exists
    /\ \E p \in CircPoints :
        /\ circ' = CircleSetPosition(circ, p)
        /\ clast' = [op |-> "setPosition", arg |-> [NoArg EXCEPT !.point = p],
                     ret |-> FALSE, threw |-> FALSE]
    /\ UNCHANGED notCirc

TranslateCircle ==
    /\ circ.exists
    /\ \E offset \in CircOffsets :
        /\ circ' = CircleTranslate(circ, offset)
        /\ Abs(circ'.position[1]) <= MaxCircCoord
        /\ Abs(circ'.position[2]) <= MaxCircCoord
        /\ clast' = [op |-> "translate", arg |-> [NoArg EXCEPT !.point = offset],
                     ret |-> FALSE, threw |-> FALSE]
    /\ UNCHANGED notCirc

\* A read of a derived getter: position, x, y, radius, squaredRadius,
\* circumference, area or aabb.
ReadCircle ==
    /\ circ.exists
    /\ circ' = CircleEnsureRefreshed(circ)
    /\ clast' = [op |-> "read", arg |-> NoArg, ret |-> FALSE, threw |-> FALSE]
    /\ UNCHANGED notCirc

(***************************************************************************)
(* Circle: the properties.                                                 *)
(***************************************************************************)

\* C13: from construction to the first mutation, and between two consecutive
\* mutations, the refresh computation runs at most once however many derived
\* getters are read, and a repeated read returns what the read before it did.
C13_RefreshOncePerDirtyPeriod ==
    [][/\ circ'.exists => circ'.refreshes <= 1
       /\ (circ.exists /\ ~circ.dirty /\ clast'.op = "read") => circ' = circ
      ]_vars

\* A number that is strictly positive; NaN is not.
IsPositive(n) == n.finite /\ n.value > 0

\* C15: constructing a Circle or calling setRadius with a radius that is not
\* strictly positive throws; a setRadius that threw leaves radius,
\* squaredRadius, position and the dirty flag unchanged; so every Circle there
\* is has radius > 0, whatever number was passed, NaN included.
C15_RadiusStrictlyPositive ==
    [][/\ (clast'.op \in {"new", "setRadius"} /\ ~IsPositive(clast'.arg.radius))
          => clast'.threw
       /\ (clast'.op = "setRadius" /\ clast'.threw) => circ' = circ
       /\ (clast'.op = "new" /\ clast'.threw) => ~circ'.exists
       /\ circ'.exists => IsPositive(circ'.radius)
      ]_vars

\* The points containsPoint is asked about.
CircProbes ==
    {<<x, y>> : x \in (0 - MaxCircCoord - 1)..(MaxCircCoord + 1),
                y \in (0 - MaxCircCoord - 1)..(MaxCircCoord + 1)}

\* What the getters of Circle c and containsPoint return corresponds to the
\* position (x, y) and the radius r of c: radius r, squaredRadius r * r, aabb
\* (x - r, y - r, 2r, 2r), and containsPoint(p) exactly for the points at
\* distance at most r, asked before a getter is read as well as after.
CircleFollows(c) ==
    LET seen == CircleEnsureRefreshed(c)
        box == RectEnsureRefreshed(seen.aabb)
        r == c.radius.value
    IN  /\ seen.position = c.position
        /\ seen.radius = Num(r)
        /\ seen.squaredRadius = Num(r * r)
        /\ box.position = <<c.position[1] - r, c.position[2] - r>>
        /\ box.size = [width |-> 2 * r, height |-> 2 * r]
        /\ \A p \in CircProbes :
            LET inside == (p[1] - c.position[1]) * (p[1] - c.position[1])
                            + (p[2] - c.position[2]) * (p[2] - c.position[2]) <= r * r
            IN  /\ CircleContainsPoint(c, p) = inside
                /\ CircleContainsPoint(seen, p) = inside

\* C16: after any sequence of setRadius(r > 0), setPosition and translate, with
\* or without getter reads in between, the position and the radius are the
\* ones the last mutators gave, and radius, squaredRadius, aabb and
\* containsPoint correspond to them.
C16_CircleDerivedFollows ==
    [][/\ (circ'.exists /\ IsPositive(circ'.radius)) => CircleFollows(circ')
       /\ (clast'.op = "setRadius" /\ IsPositive(clast'.arg.radius))
          => circ'.radius = clast'.arg.radius /\ circ'.position = circ.position
       /\ clast'.op = "setPosition"
          => circ'.position = clast'.arg.point /\ circ'.radius = circ.radius
       /\ clast'.op = "translate"
          => /\ circ'.position = <<circ.position[1] + clast'.arg.point[1],
                                   circ.position[2] + clast'.arg.point[2]>>
             /\ circ'.radius = circ.radius
       /\ clast'.op = "read"
          => circ'.position = circ.position /\ circ'.radius = circ.radius
      ]_vars

\* C16 witness: a Circle that was read and then translated: its cached aabb is
\* the one of the place it left.
C16_Witness ==
    /\ circ.exists
    /\ IsPositive(circ.radius)
    /\ clast.op = "translate"
    /\ circ.refreshes = 0
    /\ RectEnsureRefreshed(circ.aabb).position
         # <<circ.position[1] - circ.radius.value, circ.position[2] - circ.radius.value>>

\* The circle at the origin with radius 10.
Circle10 == CircleNew(<<0, 0>>, Num(10)).circle

\* The points containsPoint is asked about as an operation: around every
\* circle SetRadius and SetCirclePosition reach, and on, inside and outside the
\* boundary of Circle10.
CircQueryProbes ==
    {<<x, y>> : x \in (0 - MaxCircRadius)..(MaxCircRadius + 1),
                y \in (0 - MaxCircRadius)..(MaxCircRadius + 1)}
      \cup {<<10, 0>>, <<11, 0>>, <<6, 8>>, <<8, 7>>}

CircleQueryInit ==
    \/ CircleInit
    \/ /\ circ = Circle10
       /\ clast = [op |-> "new", arg |-> [radius |-> Num(10), point |-> <<0, 0>>],
                   ret |-> FALSE, threw |-> FALSE]

\* containsPoint(point): no getter is read, the Circle stays as it is.
ContainsCirclePoint ==
    /\ circ.exists
    /\ \E p \in CircQueryProbes :
        clast' = [op |-> "containsPoint", arg |-> [NoArg EXCEPT !.point = p],
                  ret |-> CircleContainsPoint(circ, p), threw |-> FALSE]
    /\ UNCHANGED circ
    /\ UNCHANGED notCirc

\* C23: containsPoint(p) is true exactly when
\* (p.x - cx)^2 + (p.y - cy)^2 <= r^2, the boundary included; the circle at the
\* origin with radius 10 contains (10, 0) and no point whose squared distance
\* is above 100.
C23_ContainsPointInclusive ==
    clast.op = "containsPoint" =>
        LET p == clast.arg.point
            squaredDistance == (p[1] - circ.position[1]) * (p[1] - circ.position[1])
                                 + (p[2] - circ.position[2]) * (p[2] - circ.position[2])
        IN  /\ clast.ret = (/\ circ.radius.finite
                            /\ squaredDistance <= circ.radius.value * circ.radius.value)
            /\ (circ.position = <<0, 0>> /\ circ.radius = Num(10))
               => /\ p = <<10, 0>> => clast.ret
                  /\ squaredDistance > 100 => ~clast.ret

\* C23 witness: a point exactly on the boundary of a circle whose radius was
\* set and not read since, is contained.
C23_Witness ==
    /\ clast.op = "containsPoint"
    /\ clast.ret
    /\ circ.dirty
    /\ circ.position # <<0, 0>>
    /\ LET p == clast.arg.point
       IN  (p[1] - circ.position[1]) * (p[1] - circ.position[1])
             + (p[2] - circ.position[2]) * (p[2] - circ.position[2])
             = circ.radius.value * circ.radius.value

(***************************************************************************)
(* Rect: contains(point) and intersects(shape). The shape passed to        *)
(* intersects is an input of the call: a Circle or a Rect in whatever      *)
(* state its maker left it, read through its getters.                      *)
(***************************************************************************)

\* Mutant of clamp: the upper bound is not applied.
clampLowerOnly(value, min, max) == Max({min, value})

\* clamp(value, min, max) == Math.min(max, Math.max(min, value))
clamp(value, min, max) == Min({max, Max({min, value})})

\* Mutant of RectContains: the right and the bottom edge are left out.
RectContainsHalfOpen(r, point) ==
    LET fresh == RectEnsureRefreshed(r)
        insideX == point[1] >= fresh.position[1]
                   /\ point[1] < fresh.position[1] + fresh.size.width
        insideY == point[2] >= fresh.position[2]
                   /\ point[2] < fresh.position[2] + fresh.size.height
    IN  [rect |-> fresh, ret |-> insideX /\ insideY]

\* contains(point): the getters x, y, width and height refresh the Rect.
RectContains(r, point) ==
    LET fresh == RectEnsureRefreshed(r)
        insideX == point[1] >= fresh.position[1]
                   /\ point[1] <= fresh.position[1] + fresh.size.width
        insideY == point[2] >= fresh.position[2]
                   /\ point[2] <= fresh.position[2] + fresh.size.height
    IN  [rect |-> fresh, ret |-> insideX /\ insideY]

\* shape instanceof Rect, shape instanceof Circle
IsRect(shape) == "size" \in DOMAIN shape
IsCircle(shape) == "radius" \in DOMAIN shape

\* intersects(shape)
RectIntersects(r, shape) ==
    LET fresh == RectEnsureRefreshed(r)
        thisRight == fresh.position[1] + fresh.size.width
        thisBottom == fresh.position[2] + fresh.size.height
    IN  IF IsRect(shape)
        THEN LET other == RectEnsureRefreshed(shape)
                 shapeRight == other.position[1] + other.size.width
                 shapeBottom == other.position[2] + other.size.height
                 insideRight == shapeRight >= fresh.position[1]
                                /\ other.position[1] <= thisRight
                 insideBottom == shapeBottom >= fresh.position[2]
                                 /\ other.position[2] <= thisBottom
             IN  [rect |-> fresh, ret |-> insideRight /\ insideBottom]
        ELSE IF IsCircle(shape)
        THEN LET c == CircleEnsureRefreshed(shape)
                 closestX == clamp(c.position[1], fresh.position[1], thisRight)
                 closestY == clamp(c.position[2], fresh.position[2], thisBottom)
                 dx == c.position[1] - closestX
                 dy == c.position[2] - closestY
             IN  [rect |-> fresh,
                  ret |-> NumLeq(Num(dx * dx + dy * dy), c.squaredRadius)]
        ELSE [rect |-> fresh, ret |-> FALSE]

\* The rectangle (0, 0, 100, 100) and the two circles it is asked about.
Rect100 == RectNew(Num(0), Num(0), Num(100), Num(100))
CircleFar == CircleNew(<<500, 500>>, Num(15)).circle
CircleNear == CircleNew(<<20, 30>>, Num(15)).circle

\* The points contains is asked about: around every Rect the mutators reach,
\* and on and off the edges of Rect100.
RectProbes ==
    {<<x, y>> : x \in (0 - 1)..(2 * MaxRectCoord + 1),
                y \in (0 - 1)..(2 * MaxRectCoord + 1)}
      \cup {<<100, 100>>, <<50, 0>>, <<101, 50>>}

\* The circles intersects is asked about: just constructed, moved or resized
\* after a read, and one whose radius is NaN.
RectCircles ==
    {CircleNew(p, Num(r)).circle :
        p \in {<<x, y>> : x \in (0 - 1)..(2 * MaxRectCoord + 1),
                          y \in (0 - 1)..(2 * MaxRectCoord + 1)},
        r \in 1..2}
      \cup {CircleFar, CircleNear, CircleNew(<<0, 0>>, NaN).circle,
            CircleTranslate(CircleEnsureRefreshed(CircleNew(<<0, 0>>, Num(1)).circle),
                            <<3, 0>>),
            CircleSetRadius(CircleEnsureRefreshed(CircleNew(<<3, 1>>, Num(1)).circle),
                            Num(2)).circle}

\* The rectangles intersects is asked about.
RectShapes == {RectNew(Num(x), Num(y), Num(1), Num(0)) : x \in {0, 3}, y \in {0, 3}}

RectQueryInit ==
    /\ \/ \E x \in RectNums, y \in RectNums, width \in RectNums, height \in RectNums :
            rect = RectNew(x, y, width, height)
       \/ rect = Rect100
    /\ rlast = RectNoCall

Contains ==
    /\ \E point \in RectProbes :
        /\ rect' = RectContains(rect, point).rect
        /\ rlast' = [op |-> "contains", point |-> point, shape |-> RectNoShape,
                     ret |-> RectContains(rect, point).ret]
    /\ UNCHANGED notRect

Intersects ==
    /\ \E shape \in RectCircles \cup RectShapes :
        /\ rect' = RectIntersects(rect, shape).rect
        /\ rlast' = [op |-> "intersects", point |-> <<0, 0>>, shape |-> shape,
                     ret |-> RectIntersects(rect, shape).ret]
    /\ UNCHANGED notRect

(***************************************************************************)
(* Rect queries: the properties.                                           *)
(***************************************************************************)

\* The distance along one axis from c to the interval [lo, hi].
AxisGap(c, lo, hi) == IF c < lo THEN lo - c ELSE IF c > hi THEN c - hi ELSE 0

\* C21: intersects(circle) returns true exactly when the squared distance from
\* the circle's centre to the closest point of the rectangle is at most the
\* circle's squared radius, on the position, size and radius the two shapes
\* have at the call; (0, 0, 100, 100) does not meet the circle at (500, 500)
\* of radius 15 and meets the one at (20, 30) of radius 15.
C21_IntersectsCircle ==
    (rlast.op = "intersects" /\ IsCircle(rlast.shape)) =>
        LET c == rlast.shape
            gapX == AxisGap(c.position[1], rect.position[1],
                            rect.position[1] + rect.size.width)
            gapY == AxisGap(c.position[2], rect.position[2],
                            rect.position[2] + rect.size.height)
        IN  /\ rlast.ret = (/\ c.radius.finite
                            /\ gapX * gapX + gapY * gapY
                                 <= c.radius.value * c.radius.value)
            /\ (rect.position = <<0, 0>> /\ rect.size = [width |-> 100, height |-> 100])
               => /\ c = CircleFar => ~rlast.ret
                  /\ c = CircleNear => rlast.ret

\* C21 witness: a circle whose centre lies beyond a corner of the rectangle and
\* still reaches it, asked of a Rect moved after it was read.
C21_Witness ==
    /\ rlast.op = "intersects"
    /\ IsCircle(rlast.shape)
    /\ rlast.ret
    /\ rlast.shape.position[1] > rect.position[1] + rect.size.width
    /\ rlast.shape.position[2] > rect.position[2] + rect.size.height
    /\ rect.vertices # <<>>
    /\ rect.position # <<0, 0>>

\* C22: contains(p) is true exactly when x <= p.x <= x + width and
\* y <= p.y <= y + height, on the position and size the last setPosition and
\* setSize gave; every vertex of the rectangle is contained.
C22_ContainsInclusive ==
    /\ rlast.op = "contains" =>
        (rlast.ret = (/\ rect.position[1] <= rlast.point[1]
                      /\ rlast.point[1] <= rect.position[1] + rect.size.width
                      /\ rect.position[2] <= rlast.point[2]
                      /\ rlast.point[2] <= rect.position[2] + rect.size.height))
    /\ LET fresh == RectEnsureRefreshed(rect)
       IN  \A i \in 1..Len(fresh.vertices) : RectContains(rect, fresh.vertices[i]).ret

\* C22 witness: a point on the right edge, not a vertex, of a Rect that was
\* resized, is contained.
C22_Witness ==
    /\ rlast.op = "contains"
    /\ rlast.ret
    /\ rect.size.height > 0
    /\ rlast.point[1] = rect.position[1] + rect.size.width
    /\ rlast.point[2] > rect.position[2]
    /\ rlast.point[2] < rect.position[2] + rect.size.height

(***************************************************************************)
(* Vector (packages/math/src/utils/angle.ts)                               *)
(*                                                                         *)
(* A coordinate is a [finite, value] number; NaN stands for every number   *)
(* Number.isFinite rejects (NaN, Infinity, -Infinity) and for a missing    *)
(* argument. An argument of set, add and subtract is [kind, x, y]: two     *)
(* numbers, a Vector, a Point or a pair.                                   *)
(***************************************************************************)
MaxVecCoord == 2

VecNums == {Num(n) : n \in 0..1} \cup {NaN}
VecKinds == {"numbers", "vector", "point", "pair"}

\* The arguments: a Vector passed in has finite coordinates, a Point and a pair
\* hold whatever numbers their maker put in.
VecArgs ==
    {a \in [kind : VecKinds, x : VecNums, y : VecNums] :
        a.kind = "vector" => (a.x.finite /\ a.y.finite)}

\* The fields of a Vector before the constructor's body runs.
VecBlank == [x |-> Num(0), y |-> Num(0), dirty |-> TRUE, squaredLength |-> 0]

VecMarkDirty(v) == [v EXCEPT !.dirty = TRUE]

\* set(x, y): a Vector (copyFrom), a Point (fromPoint) and a pair are copied as
\* they are; two numbers are checked with Number.isFinite.
VecSet(v, a) ==
    IF a.kind \in {"vector", "point", "pair"}
    THEN VecMarkDirty([v EXCEPT !.x = a.x, !.y = a.y])
    ELSE IF ~a.x.finite \/ ~a.y.finite THEN v
    ELSE VecMarkDirty([v EXCEPT !.x = a.x, !.y = a.y])

\* add(x, y)
VecAdd(v, a) ==
    IF a.kind \in {"vector", "point", "pair"}
    THEN VecMarkDirty([v EXCEPT !.x = NumAdd(@, a.x), !.y = NumAdd(@, a.y)])
    ELSE IF ~a.x.finite \/ ~a.y.finite THEN v
    ELSE VecMarkDirty([v EXCEPT !.x = NumAdd(@, a.x), !.y = NumAdd(@, a.y)])

\* subtract(x, y)
VecSubtract(v, a) ==
    IF a.kind \in {"vector", "point", "pair"}
    THEN VecMarkDirty([v EXCEPT !.x = NumSub(@, a.x), !.y = NumSub(@, a.y)])
    ELSE IF ~a.x.finite \/ ~a.y.finite THEN v
    ELSE VecMarkDirty([v EXCEPT !.x = NumSub(@, a.x), !.y = NumSub(@, a.y)])

\* The scalars multiply and divide are called with.
VecScalars == {Num(n) : n \in (0 - MaxVecCoord)..MaxVecCoord} \cup {NaN}

\* a / s for finite numbers where s divides a; NaN when a is NaN.
HasQuotient(a, s) ==
    a.finite => \E q \in (0 - Abs(a.value))..Abs(a.value) : q * s.value = a.value
NumDiv(a, s) ==
    IF ~a.finite THEN NaN
    ELSE Num(CHOOSE q \in (0 - Abs(a.value))..Abs(a.value) : q * s.value = a.value)

\* divide(scalar): a scalar that is 0 or not finite is warned about and ignored.
VecDivide(v, scalar) ==
    IF ~scalar.finite \/ scalar.value = 0 THEN v
    ELSE VecMarkDirty([v EXCEPT !.x = NumDiv(@, scalar), !.y = NumDiv(@, scalar)])

\* Mutant of VecMultiply: the scalar is not checked.
VecMultiplyUnchecked(v, scalar) ==
    VecMarkDirty([v EXCEPT !.x = NumMul(@, scalar), !.y = NumMul(@, scalar)])

\* multiply(scalar): a scalar that is not finite is ignored.
VecMultiply(v, scalar) ==
    IF ~scalar.finite THEN v
    ELSE VecMarkDirty([v EXCEPT !.x = NumMul(@, scalar), !.y = NumMul(@, scalar)])

\* refresh(): calculateLength; a squared length that is not finite becomes 0.
\* The length (a square root) and the unit vector are left out.
VecRefresh(v) ==
    LET squaredLength == NumAdd(NumMul(v.x, v.x), NumMul(v.y, v.y))
    IN  [v EXCEPT !.squaredLength = IF squaredLength.finite THEN squaredLength.value
                                    ELSE 0]

\* ensureRefreshed() of LazyCacheable on a Vector
VecEnsureRefreshed(v) ==
    IF ~v.dirty THEN v ELSE [VecRefresh(v) EXCEPT !.dirty = FALSE]

\* new Vector(x, y): set(x, y), then markDirty()
VecNew(a) == VecMarkDirty(VecSet(VecBlank, a))

VecBounded(v) ==
    /\ v.x.finite => Abs(v.x.value) <= MaxVecCoord
    /\ v.y.finite => Abs(v.y.value) <= MaxVecCoord

VecInit ==
    \E a \in VecArgs :
        /\ vec = VecNew(a)
        /\ vlast = [op |-> "new", arg |-> a, ret |-> "new"]

\* The Vector while another component is exercised.
VecIdle ==
    /\ vec = VecNew([kind |-> "numbers", x |-> Num(0), y |-> Num(0)])
    /\ vlast = [op |-> "new", arg |-> [kind |-> "numbers", x |-> Num(0), y |-> Num(0)],
                ret |-> "new"]

SetVec ==
    /\ \E a \in VecArgs :
        /\ vec' = VecSet(vec, a)
        /\ vlast' = [op |-> "set", arg |-> a, ret |-> "this"]
    /\ UNCHANGED notVec

AddVec ==
    /\ \E a \in VecArgs :
        /\ vec' = VecAdd(vec, a)
        /\ VecBounded(vec')
        /\ vlast' = [op |-> "add", arg |-> a, ret |-> "this"]
    /\ UNCHANGED notVec

SubtractVec ==
    /\ \E a \in VecArgs :
        /\ vec' = VecSubtract(vec, a)
        /\ VecBounded(vec')
        /\ vlast' = [op |-> "subtract", arg |-> a, ret |-> "this"]
    /\ UNCHANGED notVec

\* multiply(scalar)
MultiplyVec ==
    /\ \E scalar \in VecScalars :
        /\ vec' = VecMultiply(vec, scalar)
        /\ VecBounded(vec')
        /\ vlast' = [op |-> "multiply", arg |-> [kind |-> "scalar", x |-> scalar, y |-> Num(0)],
                     ret |-> "this"]
    /\ UNCHANGED notVec

\* divide(scalar), for the scalars whose quotients are whole numbers
DivideVec ==
    /\ \E scalar \in VecScalars :
        /\ (scalar.finite /\ scalar.value # 0)
           => (HasQuotient(vec.x, scalar) /\ HasQuotient(vec.y, scalar))
        /\ vec' = VecDivide(vec, scalar)
        /\ vlast' = [op |-> "divide", arg |-> [kind |-> "scalar", x |-> scalar, y |-> Num(0)],
                     ret |-> "this"]
    /\ UNCHANGED notVec

\* A read of length, squaredLength or unit.
ReadVec ==
    /\ vec' = VecEnsureRefreshed(vec)
    /\ vlast' = [op |-> "read", arg |-> [kind |-> "numbers", x |-> Num(0), y |-> Num(0)],
                 ret |-> "value"]
    /\ UNCHANGED notVec

(***************************************************************************)
(* Vector: the properties.                                                 *)
(***************************************************************************)

\* C14: after construction and any sequence of set, add and subtract calls in
\* every overload, x and y are finite; a call that carries a non-finite
\* coordinate leaves x, y and the dirty flag unchanged.
C14_VectorStaysFinite ==
    [][/\ vec.x.finite /\ vec.y.finite
       /\ vec'.x.finite /\ vec'.y.finite
       /\ (vlast'.op \in {"set", "add", "subtract"}
           /\ (~vlast'.arg.x.finite \/ ~vlast'.arg.y.finite))
          => vec' = vec
      ]_vars

\* C24: divide(s) with s = 0 or s not finite and multiply(s) with s not finite
\* leave x, y and the dirty flag unchanged and return the receiver; with a
\* valid scalar both components are scaled and the vector is marked dirty.
C24_InvalidScalarsIgnored ==
    [][LET s == vlast'.arg.x
       IN  /\ (vlast'.op = "divide" /\ (~s.finite \/ s.value = 0))
              => (vec' = vec /\ vlast'.ret = "this")
           /\ (vlast'.op = "multiply" /\ ~s.finite)
              => (vec' = vec /\ vlast'.ret = "this")
           /\ (vlast'.op = "multiply" /\ s.finite)
              => /\ vec'.x = NumMul(vec.x, s)
                 /\ vec'.y = NumMul(vec.y, s)
                 /\ vec'.dirty
                 /\ vlast'.ret = "this"
           /\ (vlast'.op = "divide" /\ s.finite /\ s.value # 0)
              => /\ NumMul(vec'.x, s) = vec.x
                 /\ NumMul(vec'.y, s) = vec.y
                 /\ vec'.dirty
                 /\ vlast'.ret = "this"
      ]_vars

\* C24 witness: a clean vector with a non-zero coordinate after divide(0).
C24_Witness ==
    /\ vlast.op = "divide"
    /\ vlast.arg.x = Num(0)
    /\ ~vec.dirty
    /\ vec.x.finite /\ vec.x.value # 0

\* C24 witness of the valid case: a vector halved by divide(2).
C24_WitnessScaled ==
    /\ vlast.op = "divide"
    /\ vlast.arg.x = Num(2)
    /\ vec.dirty
    /\ vec.x = Num(1)

(***************************************************************************)
(* The Vector of unnamed/part_001, the one with sub and cross2dFromPoints  *)
(* that Polygon uses. It is kept in vec, as [x, y, dirty, squaredLength];  *)
(* its set takes any numbers, and its constructor assigns the coordinates  *)
(* and marks the vector dirty without a refresh, so _squaredLength starts  *)
(* at 0. Coordinates are whole numbers: limit is exercised where the       *)
(* square root it takes and the coordinates it produces are whole.         *)
(***************************************************************************)
MaxLimitCoord == 10

\* The coordinate pairs whose length is a whole number, and (1, 1).
CoreVecPairs ==
    {p \in (0..MaxLimitCoord) \X (0..MaxLimitCoord) :
        IsSquareNumber(p[1] * p[1] + p[2] * p[2])} \cup {<<1, 1>>}
CoreVecMaxes == {1, 5, 0 - 5}

\* new Vector(x, y)
CoreVecNew(x, y) == [x |-> Num(x), y |-> Num(y), dirty |-> TRUE, squaredLength |-> 0]

\* set(x, y) with two numbers
CoreVecSet(v, x, y) == [v EXCEPT !.x = Num(x), !.y = Num(y), !.dirty = TRUE]

\* refresh(): calculateLength; the length and the unit vector are left out.
CoreVecRefresh(v) ==
    [v EXCEPT !.squaredLength = v.x.value * v.x.value + v.y.value * v.y.value]

\* ensureRefreshed() of LazyCacheable on this Vector
CoreVecEnsureRefreshed(v) ==
    IF ~v.dirty THEN v ELSE [CoreVecRefresh(v) EXCEPT !.dirty = FALSE]

\* limit(max) can be followed in whole numbers.
CoreVecLimitWhole(v, max) ==
    v.squaredLength > max * max
    => /\ IsSquareNumber(v.squaredLength)
       /\ HasQuotient(Num(v.x.value * max), Num(Root(v.squaredLength)))
       /\ HasQuotient(Num(v.y.value * max), Num(Root(v.squaredLength)))

\* limit(max): the field _squaredLength is read as it is; divide by its square
\* root and multiply by max, both of which mark the vector dirty.
CoreVecLimit(v, max) ==
    LET root == Num(Root(v.squaredLength))
    IN  IF v.squaredLength > max * max
        THEN [v EXCEPT !.x = NumDiv(Num(@.value * max), root),
                       !.y = NumDiv(Num(@.value * max), root),
                       !.dirty = TRUE]
        ELSE v

CoreVecInit ==
    \E p \in CoreVecPairs :
        /\ vec = CoreVecNew(p[1], p[2])
        /\ vlast = [op |-> "new", arg |-> [kind |-> "numbers", x |-> Num(p[1]), y |-> Num(p[2])],
                    ret |-> "new"]

SetCoreVec ==
    /\ \E p \in CoreVecPairs :
        /\ vec' = CoreVecSet(vec, p[1], p[2])
        /\ vlast' = [op |-> "set", arg |-> [kind |-> "numbers", x |-> Num(p[1]), y |-> Num(p[2])],
                     ret |-> "this"]
    /\ UNCHANGED notVec

\* A read of length, squaredLength or unit.
ReadCoreVec ==
    /\ vec' = CoreVecEnsureRefreshed(vec)
    /\ vlast' = [op |-> "read", arg |-> [kind |-> "numbers", x |-> Num(0), y |-> Num(0)],
                 ret |-> "value"]
    /\ UNCHANGED notVec

LimitCoreVec ==
    /\ \E max \in CoreVecMaxes :
        /\ CoreVecLimitWhole(vec, max)
        /\ vec' = CoreVecLimit(vec, max)
        /\ vlast' = [op |-> "limit", arg |-> [kind |-> "scalar", x |-> Num(max), y |-> Num(0)],
                     ret |-> "this"]
    /\ UNCHANGED notVec

\* C30: for any state of this Vector, freshly constructed or just mutated with
\* the cache not refreshed included, limit(max) compares the squared length of
\* the current x, y with max * max: afterwards the squared length is at most
\* max * max (Vector(10, 0).limit(5) is (5, 0)), and a vector already within
\* the limit is unchanged.
C30_LimitUsesCurrentLength ==
    [][vlast'.op = "limit" =>
        LET max == vlast'.arg.x.value
            before == vec.x.value * vec.x.value + vec.y.value * vec.y.value
            after == vec'.x.value * vec'.x.value + vec'.y.value * vec'.y.value
        IN  /\ after <= max * max
            /\ before <= max * max => (vec'.x = vec.x /\ vec'.y = vec.y)
            /\ (vec.x = Num(10) /\ vec.y = Num(0) /\ max = 5)
               => (vec'.x = Num(5) /\ vec'.y = Num(0))
      ]_vars

(***************************************************************************)
(* Specifications, one per component                                       *)
(***************************************************************************)
InitHash == HashInit /\ PoolIdle /\ LazyInit /\ PolyIdle /\ RectIdle /\ CircleIdle /\ VecIdle

NextHash == Insert \/ Remove \/ Update \/ Clear

SpecHash == InitHash /\ [][NextHash]_vars

InitPool == PoolInit /\ HashInit /\ LazyInit /\ PolyIdle /\ RectIdle /\ CircleIdle /\ VecIdle

NextPool == Acquire \/ Release \/ Preallocate \/ PoolClearAll

SpecPool == InitPool /\ [][NextPool]_vars

InitLazy == LazyInit /\ HashInit /\ PoolIdle /\ PolyIdle /\ RectIdle /\ CircleIdle /\ VecIdle

NextLazy == EnsureRefreshed \/ MarkDirty

SpecLazy == InitLazy /\ [][NextLazy]_vars

InitPoly == PolyInit /\ HashInit /\ PoolIdle /\ LazyInit /\ RectIdle /\ CircleIdle /\ VecIdle

NextPoly ==
    \/ Translate \/ SetPositionXY \/ SetPositionPoint \/ RotateBy \/ Scale
    \/ AddVertex \/ RemoveVertex \/ UpdateVertex \/ PolyRead \/ Clone
    \/ GetVertices \/ PointSet

SpecPoly == InitPoly /\ [][NextPoly]_vars

InitRect == RectInit /\ HashInit /\ PoolIdle /\ LazyInit /\ PolyIdle /\ CircleIdle /\ VecIdle

NextRect ==
    \/ SetRectPositionXY \/ SetRectPositionPoint \/ SetRectSizeWH \/ SetRectSizeObj
    \/ ReadRect \/ ReadRectAabb \/ ReadAabbChain

SpecRect == InitRect /\ [][NextRect]_vars

InitRectQuery ==
    RectQueryInit /\ HashInit /\ PoolIdle /\ LazyInit /\ PolyIdle /\ CircleIdle /\ VecIdle

NextRectQuery ==
    \/ SetRectPositionXY \/ SetRectPositionPoint \/ SetRectSizeWH \/ SetRectSizeObj
    \/ ReadRect \/ Contains \/ Intersects

SpecRectQuery == InitRectQuery /\ [][NextRectQuery]_vars

InitCirc ==
    CircleInit /\ HashInit /\ PoolIdle /\ LazyInit /\ PolyIdle /\ RectIdle /\ VecIdle

NextCirc == NewCircle \/ SetRadius \/ SetCirclePosition \/ TranslateCircle \/ ReadCircle

SpecCirc == InitCirc /\ [][NextCirc]_vars

InitCircQuery ==
    CircleQueryInit /\ HashInit /\ PoolIdle /\ LazyInit /\ PolyIdle /\ RectIdle /\ VecIdle

NextCircQuery == SetRadius \/ SetCirclePosition \/ ReadCircle \/ ContainsCirclePoint

SpecCircQuery == InitCircQuery /\ [][NextCircQuery]_vars

InitVec ==
    VecInit /\ HashInit /\ PoolIdle /\ LazyInit /\ PolyIdle /\ RectIdle /\ CircleIdle

NextVec == SetVec \/ AddVec \/ SubtractVec \/ MultiplyVec \/ DivideVec \/ ReadVec

SpecVec == InitVec /\ [][NextVec]_vars

InitCoreVec ==
    CoreVecInit /\ HashInit /\ PoolIdle /\ LazyInit /\ PolyIdle /\ RectIdle /\ CircleIdle

NextCoreVec == SetCoreVec \/ ReadCoreVec \/ LimitCoreVec

SpecCoreVec == InitCoreVec /\ [][NextCoreVec]_vars

InitShape ==
    ShapeInit /\ HashInit /\ PoolIdle /\ LazyInit /\ RectIdle /\ CircleIdle /\ VecIdle

NextShape == ShapeRead \/ ContainsPoint

SpecShape == InitShape /\ [][NextShape]_vars

====
